---- MODULE Spec2Model ----
(***************************************************************************)
(* Access-grant lifecycle and verified-download session of the document    *)
(* access platform: DocumentService (owner side), ExternalRequestorService *)
(* (request submission) and VerificationDownloadService (OTP and download  *)
(* session), over the AccessGrant and DocumentFile entities.               *)
(*                                                                         *)
(* Time is the wall clock in minutes.  A nullable column is Null (<<>>) or *)
(* a one-element sequence <<v>>.  Every service call is one atomic step    *)
(* (operations run one at a time).  A service method is an operator from   *)
(* the stored rows and its inputs to the rows it leaves and its outcome    *)
(* ("OK" or the exception thrown); a call that throws before it saves      *)
(* leaves every variable unchanged.                                        *)
(***************************************************************************)
EXTENDS Integers, Sequences, FiniteSets, TLC

VARIABLES
    now,        \* wall clock, minutes (new Date() / Date.now())
    docs,       \* document_files rows, by document id
    grants,     \* access_grants rows; a grant's id is its index
    uuidCount,  \* number of uuidv4() values drawn so far
    last,       \* the last call that saved a row: operation, grant, outcome
    hist        \* per grant: which calls have succeeded on it (history)

vars == <<now, docs, grants, uuidCount, last, hist>>

----------------------------------------------------------------------------
(* Bounds of the model *)

MaxGrants == 2
MaxUuid == 3

(* Program constants *)

OTP_VALIDITY_MINUTES == 15
OTP_MAX_ATTEMPTS == 3
SESSION_TIMEOUT_MINUTES == 60

----------------------------------------------------------------------------
(* Values *)

Null == <<>>
Some(v) == <<v>>

PENDING == "pending"
APPROVED == "approved"
DENIED == "denied"
REVOKED == "revoked"
AccessStatus == {PENDING, APPROVED, DENIED, REVOKED}

PUBLIC == "public"
HIDDEN == "hidden"
VisibilityStatus == {PUBLIC, HIDDEN}

\* instants of the wall clock the model visits
TimePoints == {0, 15, 60}

DocIds == {"d1", "d2"}
OwnerIds == {"o1", "o2"}
DocOwner == [d \in DocIds |-> IF d = "d1" THEN "o1" ELSE "o2"]
Emails == {"alice@x.com", "bob@x.com"}
OtpCodes == {"100000", "999999"}
Messages == {Null, Some("msg")}
\* expiry dates an owner may submit, relative to the time of the call
ExpiryOffsets == {0 - 15, 0, 5, 15, 90}
\* codes a requestor may submit: "000000" is never generated
SubmittedCodes == OtpCodes \cup {"000000"}

GrantIds == 1..Len(grants)
GrantIdInputs == 1..MaxGrants
UuidInputs == 1..MaxUuid

----------------------------------------------------------------------------
(* AccessGrant entity predicates, evaluated at wall-clock time t *)

\* isActive that treats an expiry date equal to the current time as passed
isActive_inclusive(g, t) ==
    IF g.status # APPROVED THEN FALSE
    ELSE IF g.expiryDate # Null /\ g.expiryDate[1] <= t THEN FALSE
    ELSE TRUE

isActive(g, t) ==
    IF g.status # APPROVED THEN FALSE
    ELSE IF g.expiryDate # Null /\ g.expiryDate[1] < t THEN FALSE
    ELSE TRUE

\* isExpired that treats an expiry date equal to the current time as passed
isExpired_inclusive(g, t) ==
    IF g.status # APPROVED THEN FALSE
    ELSE IF g.expiryDate # Null /\ g.expiryDate[1] <= t THEN TRUE
    ELSE FALSE

isExpired(g, t) ==
    IF g.status # APPROVED THEN FALSE
    ELSE IF g.expiryDate # Null /\ g.expiryDate[1] < t THEN TRUE
    ELSE FALSE

isOtpExpired(g, t) ==
    IF g.otpExpiryDate = Null THEN TRUE
    ELSE g.otpExpiryDate[1] < t

\* canRequestOtp without its isExpired() check
canRequestOtp_expiredToo(g, t) ==
    IF g.status # APPROVED THEN FALSE
    ELSE TRUE

\* canRequestOtp without its status check
canRequestOtp_anyStatus(g, t) ==
    IF isExpired(g, t) THEN FALSE
    ELSE TRUE

canRequestOtp(g, t) ==
    IF g.status # APPROVED THEN FALSE
    ELSE IF isExpired(g, t) THEN FALSE
    ELSE TRUE

\* canVerifyOtp that allows one attempt more
canVerifyOtp_offByOne(g, t) ==
    IF g.otp = Null \/ g.otp = Some("") THEN FALSE
    ELSE IF g.otpExpiryDate = Null \/ g.otpExpiryDate[1] < t THEN FALSE
    ELSE IF g.otpAttempts > 3 THEN FALSE
    ELSE TRUE

\* canVerifyOtp without its isOtpExpired() check
canVerifyOtp_expiredToo(g, t) ==
    IF g.otp = Null \/ g.otp = Some("") THEN FALSE
    ELSE IF g.otpAttempts >= 3 THEN FALSE
    ELSE TRUE

\* canVerifyOtp without its attempt limit
canVerifyOtp_noLimit(g, t) ==
    IF g.otp = Null \/ g.otp = Some("") THEN FALSE
    ELSE IF g.otpExpiryDate = Null \/ g.otpExpiryDate[1] < t THEN FALSE
    ELSE TRUE

\* !this.otp is true of null and of the empty string
canVerifyOtp(g, t) ==
    IF g.otp = Null \/ g.otp = Some("") THEN FALSE
    ELSE IF isOtpExpired(g, t) THEN FALSE
    ELSE IF g.otpAttempts >= 3 THEN FALSE
    ELSE TRUE

\* isSessionActive without its isExpired() check
isSessionActive_ignoresExpiry(g, t) ==
    IF ~g.isVerified THEN FALSE
    ELSE IF g.lastActivityAt # Null THEN (t - g.lastActivityAt[1]) < 60
    ELSE TRUE

\* isSessionActive with an inclusive inactivity limit
isSessionActive_inclusive(g, t) ==
    IF ~g.isVerified THEN FALSE
    ELSE IF isExpired(g, t) THEN FALSE
    ELSE IF g.lastActivityAt # Null THEN (t - g.lastActivityAt[1]) <= 60
    ELSE TRUE

isSessionActive(g, t) ==
    IF ~g.isVerified THEN FALSE
    ELSE IF isExpired(g, t) THEN FALSE
    ELSE IF g.lastActivityAt # Null THEN (t - g.lastActivityAt[1]) < 60
    ELSE TRUE

\* DocumentFile.isActive
docIsActive(d) == d.deletedAt = Null

----------------------------------------------------------------------------
(* Repository helpers *)

\* accessGrantRepository.create({...}) followed by save: column defaults
NewGrant(documentId, requestorEmail, token) ==
    [ documentId |-> documentId,
      requestorEmail |-> requestorEmail,
      accessToken |-> Some(token),
      status |-> PENDING,
      expiryDate |-> Null,
      denialReason |-> Null,
      approvalMessage |-> Null,
      revocationMessage |-> Null,
      actionCompletedAt |-> Null,
      otp |-> Null,
      otpExpiryDate |-> Null,
      otpAttempts |-> 0,
      isVerified |-> FALSE,
      verifiedAt |-> Null,
      downloadSessionToken |-> Null,
      lastActivityAt |-> Null ]

\* findOne: 0 when no row matches
FindOne(S) == IF S = {} THEN 0 ELSE CHOOSE i \in S : \A j \in S : i <= j

\* documentRepository.findOne({ where: { id, ownerId } })
findDocument(D, documentId, ownerId) ==
    documentId \in DocIds /\ DocOwner[documentId] = ownerId

\* the public, non-deleted document query of submitAccessRequest
findPublicDocument(D, documentId) ==
    /\ documentId \in DocIds
    /\ D[documentId].visibilityStatus = PUBLIC
    /\ D[documentId].deletedAt = Null

\* accessGrantRepository.findOne({ where: { id, documentId } })
findGrant(G, accessGrantId, documentId) ==
    FindOne({i \in 1..Len(G) : i = accessGrantId /\ G[i].documentId = documentId})

\* what a call leaves behind: the rows, the outcome ("OK" or the exception
\* thrown), the grant it found, the audit rows it wrote (in order), the token
\* it returned
Outcome(G, res, gid, audit, token) ==
    [grants |-> G, res |-> res, gid |-> gid, audit |-> audit, token |-> token]

Result(G, res, gid) == Outcome(G, res, gid, <<>>, Null)

----------------------------------------------------------------------------
(* ExternalRequestorService.submitAccessRequest *)

\* submitAccessRequest whose duplicate check ignores the status
submitAccessRequest_anyStatus(G, D, uuid, documentId, requestorEmail) ==
    IF ~findPublicDocument(D, documentId) THEN Result(G, "NotFound", 0)
    ELSE IF \E i \in 1..Len(G) :
                /\ G[i].documentId = documentId
                /\ G[i].requestorEmail = requestorEmail
         THEN Result(G, "Conflict", 0)
    ELSE Result(Append(G, NewGrant(documentId, requestorEmail, uuid)),
                "OK", Len(G) + 1)

submitAccessRequest(G, D, uuid, documentId, requestorEmail) ==
    IF ~findPublicDocument(D, documentId) THEN Result(G, "NotFound", 0)
    ELSE IF \E i \in 1..Len(G) :
                /\ G[i].documentId = documentId
                /\ G[i].requestorEmail = requestorEmail
                /\ G[i].status = PENDING
         THEN Result(G, "Conflict", 0)
    ELSE Result(Append(G, NewGrant(documentId, requestorEmail, uuid)),
                "OK", Len(G) + 1)

----------------------------------------------------------------------------
(* DocumentService: owner-side grant operations *)

\* revokeAccessGrant that only revokes APPROVED grants
revokeAccessGrant_approvedOnly(G, D, t, documentId, accessGrantId, ownerId, message) ==
    LET gid == findGrant(G, accessGrantId, documentId) IN
    IF ~findDocument(D, documentId, ownerId) THEN Result(G, "NotFound", 0)
    ELSE IF gid = 0 THEN Result(G, "NotFound", 0)
    ELSE IF G[gid].status # APPROVED THEN Result(G, "BadRequest", gid)
    ELSE Result([G EXCEPT ![gid] =
                    [@ EXCEPT !.status = REVOKED,
                              !.revocationMessage =
                                  IF message # Null THEN message ELSE @,
                              !.actionCompletedAt = Some(t)]],
                "OK", gid)

\* revokeAccessGrant that also clears the expiry date
revokeAccessGrant_clearsExpiry(G, D, t, documentId, accessGrantId, ownerId, message) ==
    LET gid == findGrant(G, accessGrantId, documentId) IN
    IF ~findDocument(D, documentId, ownerId) THEN Result(G, "NotFound", 0)
    ELSE IF gid = 0 THEN Result(G, "NotFound", 0)
    ELSE Result([G EXCEPT ![gid] =
                    [@ EXCEPT !.status = REVOKED,
                              !.expiryDate = Null,
                              !.revocationMessage =
                                  IF message # Null THEN message ELSE @,
                              !.actionCompletedAt = Some(t)]],
                "OK", gid)

revokeAccessGrant(G, D, t, documentId, accessGrantId, ownerId, message) ==
    LET gid == findGrant(G, accessGrantId, documentId) IN
    IF ~findDocument(D, documentId, ownerId) THEN Result(G, "NotFound", 0)
    ELSE IF gid = 0 THEN Result(G, "NotFound", 0)
    ELSE Result([G EXCEPT ![gid] =
                    [@ EXCEPT !.status = REVOKED,
                              !.revocationMessage =
                                  IF message # Null THEN message ELSE @,
                              !.actionCompletedAt = Some(t)]],
                "OK", gid)

\* approveAccessRequest without its status check
approveAccessRequest_anyStatus(G, D, t, documentId, accessGrantId, ownerId, expiryDate, message) ==
    LET gid == findGrant(G, accessGrantId, documentId) IN
    IF ~findDocument(D, documentId, ownerId) THEN Result(G, "NotFound", 0)
    ELSE IF gid = 0 THEN Result(G, "NotFound", 0)
    ELSE IF expiryDate <= t THEN Result(G, "BadRequest", gid)
    ELSE Result([G EXCEPT ![gid] =
                    [@ EXCEPT !.status = APPROVED,
                              !.expiryDate = Some(expiryDate),
                              !.approvalMessage =
                                  IF message # Null THEN message ELSE @,
                              !.actionCompletedAt = Some(t)]],
                "OK", gid)

\* approveAccessRequest that accepts an expiry date equal to the current time
approveAccessRequest_notPast(G, D, t, documentId, accessGrantId, ownerId, expiryDate, message) ==
    LET gid == findGrant(G, accessGrantId, documentId) IN
    IF ~findDocument(D, documentId, ownerId) THEN Result(G, "NotFound", 0)
    ELSE IF gid = 0 THEN Result(G, "NotFound", 0)
    ELSE IF G[gid].status # PENDING THEN Result(G, "BadRequest", gid)
    ELSE IF expiryDate < t THEN Result(G, "BadRequest", gid)
    ELSE Result([G EXCEPT ![gid] =
                    [@ EXCEPT !.status = APPROVED,
                              !.expiryDate = Some(expiryDate),
                              !.approvalMessage =
                                  IF message # Null THEN message ELSE @,
                              !.actionCompletedAt = Some(t)]],
                "OK", gid)

approveAccessRequest(G, D, t, documentId, accessGrantId, ownerId, expiryDate, message) ==
    LET gid == findGrant(G, accessGrantId, documentId) IN
    IF ~findDocument(D, documentId, ownerId) THEN Result(G, "NotFound", 0)
    ELSE IF gid = 0 THEN Result(G, "NotFound", 0)
    ELSE IF G[gid].status # PENDING THEN Result(G, "BadRequest", gid)
    ELSE IF expiryDate <= t THEN Result(G, "BadRequest", gid)
    ELSE Result([G EXCEPT ![gid] =
                    [@ EXCEPT !.status = APPROVED,
                              !.expiryDate = Some(expiryDate),
                              !.approvalMessage =
                                  IF message # Null THEN message ELSE @,
                              !.actionCompletedAt = Some(t)]],
                "OK", gid)

denyAccessRequest(G, D, t, documentId, accessGrantId, ownerId, reason) ==
    LET gid == findGrant(G, accessGrantId, documentId) IN
    IF ~findDocument(D, documentId, ownerId) THEN Result(G, "NotFound", 0)
    ELSE IF gid = 0 THEN Result(G, "NotFound", 0)
    ELSE IF G[gid].status # PENDING THEN Result(G, "BadRequest", gid)
    ELSE Result([G EXCEPT ![gid] =
                    [@ EXCEPT !.status = DENIED,
                              !.denialReason =
                                  IF reason # Null THEN reason ELSE @,
                              !.actionCompletedAt = Some(t)]],
                "OK", gid)

\* bulkRevokeAccess without its isExpired() filter
bulkRevokeAccess_expiredToo(G, D, t, documentId, ownerId, message) ==
    LET grantsToRevoke ==
            {i \in 1..Len(G) : /\ G[i].documentId = documentId
                               /\ G[i].status = APPROVED}
    IN
    IF ~findDocument(D, documentId, ownerId) THEN Result(G, "NotFound", 0)
    ELSE Result([i \in 1..Len(G) |->
                    IF i \in grantsToRevoke
                    THEN [G[i] EXCEPT !.status = REVOKED,
                                      !.revocationMessage =
                                          IF message # Null THEN message ELSE @,
                                      !.actionCompletedAt = Some(t)]
                    ELSE G[i]],
                "OK", 0)

bulkRevokeAccess(G, D, t, documentId, ownerId, message) ==
    LET grantsToRevoke ==
            {i \in 1..Len(G) : /\ G[i].documentId = documentId
                               /\ G[i].status = APPROVED
                               /\ ~isExpired(G[i], t)}
    IN
    IF ~findDocument(D, documentId, ownerId) THEN Result(G, "NotFound", 0)
    ELSE Result([i \in 1..Len(G) |->
                    IF i \in grantsToRevoke
                    THEN [G[i] EXCEPT !.status = REVOKED,
                                      !.revocationMessage =
                                          IF message # Null THEN message ELSE @,
                                      !.actionCompletedAt = Some(t)]
                    ELSE G[i]],
                "OK", 0)

----------------------------------------------------------------------------
(* VerificationDownloadService *)

\* findAccessGrantByTokenAndEmail that looks the grant up by its token alone
findAccessGrantByTokenAndEmail_tokenOnly(G, token, email) ==
    FindOne({i \in 1..Len(G) : G[i].accessToken = Some(token)})

findAccessGrantByTokenAndEmail(G, token, email) ==
    FindOne({i \in 1..Len(G) :
                G[i].accessToken = Some(token) /\ G[i].requestorEmail = email})

\* findOne({ where: { downloadSessionToken, isVerified: true } })
findSession(G, downloadSessionToken) ==
    FindOne({i \in 1..Len(G) :
                /\ G[i].downloadSessionToken = Some(downloadSessionToken)
                /\ G[i].isVerified})

\* initiateVerification that checks the document's visibility first
initiateVerification_visibilityFirst(G, D, t, requestUUID, requestorEmail) ==
    LET gid == findAccessGrantByTokenAndEmail(G, requestUUID, requestorEmail) IN
    IF gid = 0 THEN Result(G, "NotFound", 0)
    ELSE IF D[G[gid].documentId].visibilityStatus # PUBLIC
         THEN Result(G, "Forbidden", gid)
    ELSE IF G[gid].status # APPROVED THEN Result(G, "BadRequest", gid)
    ELSE IF isExpired(G[gid], t) THEN Result(G, "BadRequest", gid)
    ELSE Outcome(G, "OK", gid, <<"SESSION_CREATED">>, Null)

initiateVerification(G, D, t, requestUUID, requestorEmail) ==
    LET gid == findAccessGrantByTokenAndEmail(G, requestUUID, requestorEmail) IN
    IF gid = 0 THEN Result(G, "NotFound", 0)
    ELSE IF G[gid].status # APPROVED THEN Result(G, "BadRequest", gid)
    ELSE IF isExpired(G[gid], t) THEN Result(G, "BadRequest", gid)
    ELSE IF D[G[gid].documentId].visibilityStatus # PUBLIC
         THEN Result(G, "Forbidden", gid)
    ELSE Outcome(G, "OK", gid, <<"SESSION_CREATED">>, Null)

\* requestOtp that keeps a session that is no longer active
requestOtp_keepsSession(G, D, t, requestUUID, requestorEmail, otp) ==
    LET gid == findAccessGrantByTokenAndEmail(G, requestUUID, requestorEmail) IN
    IF gid = 0 THEN Result(G, "NotFound", 0)
    ELSE IF ~canRequestOtp(G[gid], t) THEN Result(G, "BadRequest", gid)
    ELSE IF D[G[gid].documentId].visibilityStatus # PUBLIC
         THEN Result(G, "Forbidden", gid)
    ELSE Outcome([G EXCEPT ![gid] =
                     [@ EXCEPT !.otp = Some(otp),
                               !.otpExpiryDate = Some(t + OTP_VALIDITY_MINUTES),
                               !.otpAttempts = 0]],
                 "OK", gid, <<"OTP_REQUESTED">>, Null)

\* requestOtp that does not reset otpAttempts
requestOtp_keepsAttempts(G, D, t, requestUUID, requestorEmail, otp) ==
    LET gid == findAccessGrantByTokenAndEmail(G, requestUUID, requestorEmail) IN
    IF gid = 0 THEN Result(G, "NotFound", 0)
    ELSE IF ~canRequestOtp(G[gid], t) THEN Result(G, "BadRequest", gid)
    ELSE IF D[G[gid].documentId].visibilityStatus # PUBLIC
         THEN Result(G, "Forbidden", gid)
    ELSE
      LET g == G[gid]
          stale == g.isVerified /\ ~isSessionActive(g, t)
          g1 == IF stale
                THEN [g EXCEPT !.isVerified = FALSE,
                               !.verifiedAt = Null,
                               !.downloadSessionToken = Null,
                               !.lastActivityAt = Null]
                ELSE g
          g2 == [g1 EXCEPT !.otp = Some(otp),
                           !.otpExpiryDate = Some(t + OTP_VALIDITY_MINUTES)]
      IN Outcome([G EXCEPT ![gid] = g2], "OK", gid,
                 (IF stale THEN <<"SESSION_EXPIRED">> ELSE <<>>)
                     \o <<"OTP_REQUESTED">>,
                 Null)

\* otp: the code Math.random() produces
\* requestOtp that clears a stale session but leaves its token in the row
requestOtp_keepsToken(G, D, t, requestUUID, requestorEmail, otp) ==
    LET gid == findAccessGrantByTokenAndEmail(G, requestUUID, requestorEmail) IN
    IF gid = 0 THEN Result(G, "NotFound", 0)
    ELSE IF ~canRequestOtp(G[gid], t) THEN Result(G, "BadRequest", gid)
    ELSE IF D[G[gid].documentId].visibilityStatus # PUBLIC
         THEN Result(G, "Forbidden", gid)
    ELSE
      LET g == G[gid]
          stale == g.isVerified /\ ~isSessionActive(g, t)
          g1 == IF stale
                THEN [g EXCEPT !.isVerified = FALSE,
                               !.verifiedAt = Null,
                               !.lastActivityAt = Null]
                ELSE g
          g2 == [g1 EXCEPT !.otp = Some(otp),
                           !.otpExpiryDate = Some(t + OTP_VALIDITY_MINUTES),
                           !.otpAttempts = 0]
      IN Outcome([G EXCEPT ![gid] = g2], "OK", gid,
                 (IF stale THEN <<"SESSION_EXPIRED">> ELSE <<>>)
                     \o <<"OTP_REQUESTED">>,
                 Null)

requestOtp(G, D, t, requestUUID, requestorEmail, otp) ==
    LET gid == findAccessGrantByTokenAndEmail(G, requestUUID, requestorEmail) IN
    IF gid = 0 THEN Result(G, "NotFound", 0)
    ELSE IF ~canRequestOtp(G[gid], t) THEN Result(G, "BadRequest", gid)
    ELSE IF D[G[gid].documentId].visibilityStatus # PUBLIC
         THEN Result(G, "Forbidden", gid)
    ELSE
      LET g == G[gid]
          stale == g.isVerified /\ ~isSessionActive(g, t)
          g1 == IF stale
                THEN [g EXCEPT !.isVerified = FALSE,
                               !.verifiedAt = Null,
                               !.downloadSessionToken = Null,
                               !.lastActivityAt = Null]
                ELSE g
          g2 == [g1 EXCEPT !.otp = Some(otp),
                           !.otpExpiryDate = Some(t + OTP_VALIDITY_MINUTES),
                           !.otpAttempts = 0]
      IN Outcome([G EXCEPT ![gid] = g2], "OK", gid,
                 (IF stale THEN <<"SESSION_EXPIRED">> ELSE <<>>)
                     \o <<"OTP_REQUESTED">>,
                 Null)

\* verifyOtp that counts the attempts made while locked
verifyOtp_countsLocked(G, t, requestUUID, requestorEmail, otp, uuid) ==
    LET gid == findAccessGrantByTokenAndEmail(G, requestUUID, requestorEmail) IN
    IF gid = 0 THEN Result(G, "NotFound", 0)
    ELSE IF ~canVerifyOtp(G[gid], t)
         THEN IF G[gid].otpAttempts >= OTP_MAX_ATTEMPTS
              THEN Outcome([G EXCEPT ![gid].otpAttempts = @ + 1],
                           "Conflict", gid, <<"OTP_FAILED">>, Null)
              ELSE Result(G, "BadRequest", gid)
    ELSE IF G[gid].otp # Some(otp)
         THEN Outcome([G EXCEPT ![gid].otpAttempts = @ + 1],
                      "BadRequest", gid, <<"OTP_FAILED">>, Null)
    ELSE Outcome([G EXCEPT ![gid] =
                     [@ EXCEPT !.isVerified = TRUE,
                               !.verifiedAt = Some(t),
                               !.downloadSessionToken = Some(uuid),
                               !.lastActivityAt = Some(t),
                               !.otp = Some("")]],
                 "OK", gid, <<"OTP_VERIFIED">>, Some(uuid))

\* verifyOtp that leaves the verified code in place
verifyOtp_keepsOtp(G, t, requestUUID, requestorEmail, otp, uuid) ==
    LET gid == findAccessGrantByTokenAndEmail(G, requestUUID, requestorEmail) IN
    IF gid = 0 THEN Result(G, "NotFound", 0)
    ELSE IF ~canVerifyOtp(G[gid], t)
         THEN IF G[gid].otpAttempts >= OTP_MAX_ATTEMPTS
              THEN Outcome(G, "Conflict", gid, <<"OTP_FAILED">>, Null)
              ELSE Result(G, "BadRequest", gid)
    ELSE IF G[gid].otp # Some(otp)
         THEN Outcome([G EXCEPT ![gid].otpAttempts = @ + 1],
                      "BadRequest", gid, <<"OTP_FAILED">>, Null)
    ELSE Outcome([G EXCEPT ![gid] =
                     [@ EXCEPT !.isVerified = TRUE,
                               !.verifiedAt = Some(t),
                               !.downloadSessionToken = Some(uuid),
                               !.lastActivityAt = Some(t)]],
                 "OK", gid, <<"OTP_VERIFIED">>, Some(uuid))

\* verifyOtp that does not count a wrong code
verifyOtp_noCount(G, t, requestUUID, requestorEmail, otp, uuid) ==
    LET gid == findAccessGrantByTokenAndEmail(G, requestUUID, requestorEmail) IN
    IF gid = 0 THEN Result(G, "NotFound", 0)
    ELSE IF ~canVerifyOtp(G[gid], t)
         THEN IF G[gid].otpAttempts >= OTP_MAX_ATTEMPTS
              THEN Outcome(G, "Conflict", gid, <<"OTP_FAILED">>, Null)
              ELSE Result(G, "BadRequest", gid)
    ELSE IF G[gid].otp # Some(otp)
         THEN Outcome(G, "BadRequest", gid, <<"OTP_FAILED">>, Null)
    ELSE Outcome([G EXCEPT ![gid] =
                     [@ EXCEPT !.isVerified = TRUE,
                               !.verifiedAt = Some(t),
                               !.downloadSessionToken = Some(uuid),
                               !.lastActivityAt = Some(t),
                               !.otp = Some("")]],
                 "OK", gid, <<"OTP_VERIFIED">>, Some(uuid))

\* verifyOtp that rejects an expired grant
verifyOtp_checksExpiry(G, t, requestUUID, requestorEmail, otp, uuid) ==
    LET gid == findAccessGrantByTokenAndEmail(G, requestUUID, requestorEmail) IN
    IF gid = 0 THEN Result(G, "NotFound", 0)
    ELSE IF isExpired(G[gid], t) THEN Result(G, "BadRequest", gid)
    ELSE IF ~canVerifyOtp(G[gid], t)
         THEN IF G[gid].otpAttempts >= OTP_MAX_ATTEMPTS
              THEN Outcome(G, "Conflict", gid, <<"OTP_FAILED">>, Null)
              ELSE Result(G, "BadRequest", gid)
    ELSE IF G[gid].otp # Some(otp)
         THEN Outcome([G EXCEPT ![gid].otpAttempts = @ + 1],
                      "BadRequest", gid, <<"OTP_FAILED">>, Null)
    ELSE Outcome([G EXCEPT ![gid] =
                     [@ EXCEPT !.isVerified = TRUE,
                               !.verifiedAt = Some(t),
                               !.downloadSessionToken = Some(uuid),
                               !.lastActivityAt = Some(t),
                               !.otp = Some("")]],
                 "OK", gid, <<"OTP_VERIFIED">>, Some(uuid))

\* otp: the submitted code; uuid: the value uuidv4() returns on a match
\* verifyOtp that keeps the session token the grant already has
verifyOtp_keepsToken(G, t, requestUUID, requestorEmail, otp, uuid) ==
    LET gid == findAccessGrantByTokenAndEmail(G, requestUUID, requestorEmail) IN
    IF gid = 0 THEN Result(G, "NotFound", 0)
    ELSE IF ~canVerifyOtp(G[gid], t)
         THEN IF G[gid].otpAttempts >= OTP_MAX_ATTEMPTS
              THEN Outcome(G, "Conflict", gid, <<"OTP_FAILED">>, Null)
              ELSE Result(G, "BadRequest", gid)
    ELSE IF G[gid].otp # Some(otp)
         THEN Outcome([G EXCEPT ![gid].otpAttempts = @ + 1],
                      "BadRequest", gid, <<"OTP_FAILED">>, Null)
    ELSE Outcome([G EXCEPT ![gid] =
                     [@ EXCEPT !.isVerified = TRUE,
                               !.verifiedAt = Some(t),
                               !.downloadSessionToken =
                                   IF @ # Null THEN @ ELSE Some(uuid),
                               !.lastActivityAt = Some(t),
                               !.otp = Some("")]],
                 "OK", gid, <<"OTP_VERIFIED">>,
                 IF G[gid].downloadSessionToken # Null
                 THEN G[gid].downloadSessionToken ELSE Some(uuid))

verifyOtp(G, t, requestUUID, requestorEmail, otp, uuid) ==
    LET gid == findAccessGrantByTokenAndEmail(G, requestUUID, requestorEmail) IN
    IF gid = 0 THEN Result(G, "NotFound", 0)
    ELSE IF ~canVerifyOtp(G[gid], t)
         THEN IF G[gid].otpAttempts >= OTP_MAX_ATTEMPTS
              THEN Outcome(G, "Conflict", gid, <<"OTP_FAILED">>, Null)
              ELSE Result(G, "BadRequest", gid)
    ELSE IF G[gid].otp # Some(otp)
         THEN Outcome([G EXCEPT ![gid].otpAttempts = @ + 1],
                      "BadRequest", gid, <<"OTP_FAILED">>, Null)
    ELSE Outcome([G EXCEPT ![gid] =
                     [@ EXCEPT !.isVerified = TRUE,
                               !.verifiedAt = Some(t),
                               !.downloadSessionToken = Some(uuid),
                               !.lastActivityAt = Some(t),
                               !.otp = Some("")]],
                 "OK", gid, <<"OTP_VERIFIED">>, Some(uuid))

\* validateDownloadSession that records the activity of a rejected call
validateDownloadSession_touches(G, D, t, downloadSessionToken) ==
    LET gid == findSession(G, downloadSessionToken) IN
    IF gid = 0 THEN Result(G, "NotFound", 0)
    ELSE IF ~isSessionActive(G[gid], t)
         THEN Outcome([G EXCEPT ![gid].lastActivityAt = Some(t)],
                      "Forbidden", gid, <<"SESSION_EXPIRED">>, Null)
    ELSE IF D[G[gid].documentId].visibilityStatus # PUBLIC
         THEN Outcome(G, "Forbidden", gid, <<"SESSION_EXPIRED">>, Null)
    ELSE Result([G EXCEPT ![gid].lastActivityAt = Some(t)], "OK", gid)

validateDownloadSession(G, D, t, downloadSessionToken) ==
    LET gid == findSession(G, downloadSessionToken) IN
    IF gid = 0 THEN Result(G, "NotFound", 0)
    ELSE IF ~isSessionActive(G[gid], t)
         THEN Outcome(G, "Forbidden", gid, <<"SESSION_EXPIRED">>, Null)
    ELSE IF D[G[gid].documentId].visibilityStatus # PUBLIC
         THEN Outcome(G, "Forbidden", gid, <<"SESSION_EXPIRED">>, Null)
    ELSE Result([G EXCEPT ![gid].lastActivityAt = Some(t)], "OK", gid)

\* getDocumentForDownload without its visibility check
getDocumentForDownload_hiddenToo(G, D, t, downloadSessionToken) ==
    LET gid == findSession(G, downloadSessionToken) IN
    IF gid = 0 THEN Result(G, "NotFound", 0)
    ELSE IF ~isSessionActive(G[gid], t)
         THEN Outcome(G, "Forbidden", gid, <<"SESSION_EXPIRED">>, Null)
    ELSE Result([G EXCEPT ![gid].lastActivityAt = Some(t)], "OK", gid)

getDocumentForDownload(G, D, t, downloadSessionToken) ==
    LET gid == findSession(G, downloadSessionToken) IN
    IF gid = 0 THEN Result(G, "NotFound", 0)
    ELSE IF ~isSessionActive(G[gid], t)
         THEN Outcome(G, "Forbidden", gid, <<"SESSION_EXPIRED">>, Null)
    ELSE IF D[G[gid].documentId].visibilityStatus # PUBLIC
         THEN Outcome(G, "Forbidden", gid, <<"DOWNLOAD_FAILED">>, Null)
    ELSE Result([G EXCEPT ![gid].lastActivityAt = Some(t)], "OK", gid)

recordDownload(G, t, downloadSessionToken) ==
    LET gid == findSession(G, downloadSessionToken) IN
    IF gid = 0 THEN Result(G, "NotFound", 0)
    ELSE IF ~isSessionActive(G[gid], t) THEN Result(G, "Forbidden", gid)
    ELSE Outcome([G EXCEPT ![gid].lastActivityAt = Some(t)], "OK", gid,
                 <<"DOWNLOAD_COMPLETED">>, Null)

----------------------------------------------------------------------------
(* DocumentService: document operations *)

DocResult(D, res) == [docs |-> D, res |-> res]

updateDocumentVisibility(D, documentId, ownerId, visibilityStatus) ==
    IF ~findDocument(D, documentId, ownerId) THEN DocResult(D, "NotFound")
    ELSE IF ~docIsActive(D[documentId]) THEN DocResult(D, "BadRequest")
    ELSE DocResult([D EXCEPT ![documentId].visibilityStatus = visibilityStatus],
                   "OK")

\* deleteDocument without its active-grant check
deleteDocument_noCheck(G, D, t, documentId, ownerId) ==
    IF ~findDocument(D, documentId, ownerId) THEN DocResult(D, "NotFound")
    ELSE DocResult([D EXCEPT ![documentId].deletedAt = Some(t),
                             ![documentId].stored = FALSE], "OK")

deleteDocument(G, D, t, documentId, ownerId) ==
    LET activeAccessGrants ==
            {i \in 1..Len(G) : /\ G[i].documentId = documentId
                               /\ G[i].status = APPROVED
                               /\ isActive(G[i], t)}
    IN
    IF ~findDocument(D, documentId, ownerId) THEN DocResult(D, "NotFound")
    ELSE IF activeAccessGrants # {} THEN DocResult(D, "BadRequest")
    ELSE DocResult([D EXCEPT ![documentId].deletedAt = Some(t),
                             ![documentId].stored = FALSE], "OK")

----------------------------------------------------------------------------
(* The state machine *)

\* uploadDocument stores a document HIDDEN and not deleted
\* stored: the uploaded file is present in the file storage
NewDocument == [visibilityStatus |-> HIDDEN, deletedAt |-> Null, stored |-> TRUE]

NewHist ==
    [ approved |-> FALSE,      \* approveAccessRequest has succeeded
      approvals |-> 0,         \* number of successful approveAccessRequest
      otpRequested |-> FALSE,  \* requestOtp has succeeded
      otpVerified |-> FALSE,   \* verifyOtp has succeeded
      sessionAt |-> Null,      \* time of the last successful verifyOtp,
                               \* validateDownloadSession,
                               \* getDocumentForDownload or recordDownload
      refreshed |-> FALSE,     \* that call was not verifyOtp
      wrongAll |-> 0 - 1,      \* consecutive verifyOtp calls with a wrong code
                               \* since the last successful requestOtp
                               \* (-1: none issued, or the run was broken)
      wrongValid |-> 0 - 1 ]   \* those made before the code expired

Call(op, r) == [op |-> op, res |-> r.res, gid |-> r.gid]

\* a call that threw and saved nothing
Threw(r) == r.res # "OK" /\ r.grants = grants

Tick ==
    /\ \E t \in TimePoints : t > now /\ now' = t
    /\ last' = [op |-> "tick", res |-> "OK", gid |-> 0]
    /\ UNCHANGED <<docs, grants, uuidCount, hist>>

UpdateDocumentVisibility(Ds) ==
    \E documentId \in Ds, ownerId \in OwnerIds, v \in VisibilityStatus :
        LET r == updateDocumentVisibility(docs, documentId, ownerId, v) IN
        IF r.res # "OK" THEN UNCHANGED vars
        ELSE /\ docs' = r.docs
             /\ last' = [op |-> "updateDocumentVisibility", res |-> "OK", gid |-> 0]
             /\ UNCHANGED <<now, grants, uuidCount, hist>>

DeleteDocument(Ds) ==
    \E documentId \in Ds, ownerId \in OwnerIds :
        LET r == deleteDocument(grants, docs, now, documentId, ownerId) IN
        IF r.res # "OK" THEN UNCHANGED vars
        ELSE /\ docs' = r.docs
             /\ last' = [op |-> "deleteDocument", res |-> "OK", gid |-> 0]
             /\ UNCHANGED <<now, grants, uuidCount, hist>>

SubmitAccessRequest(Ds, Es) ==
    \E documentId \in Ds, requestorEmail \in Es :
        LET r == submitAccessRequest(grants, docs, uuidCount + 1,
                                     documentId, requestorEmail) IN
        IF Threw(r) THEN UNCHANGED vars
        ELSE /\ Len(grants) < MaxGrants /\ uuidCount < MaxUuid
             /\ grants' = r.grants
             /\ uuidCount' = uuidCount + 1
             /\ hist' = Append(hist, NewHist)
             /\ last' = Call("submitAccessRequest", r)
             /\ UNCHANGED <<now, docs>>

ApproveAccessRequest(Ms) ==
    \E documentId \in DocIds, accessGrantId \in GrantIdInputs,
       ownerId \in OwnerIds, off \in ExpiryOffsets, message \in Ms :
        LET r == approveAccessRequest(grants, docs, now, documentId,
                                      accessGrantId, ownerId, now + off, message)
        IN
        IF Threw(r) THEN UNCHANGED vars
        ELSE /\ grants' = r.grants
             /\ hist' = [hist EXCEPT ![r.gid].approved = TRUE,
                                     ![r.gid].approvals = @ + 1]
             /\ last' = Call("approveAccessRequest", r)
             /\ UNCHANGED <<now, docs, uuidCount>>

DenyAccessRequest(Ms) ==
    \E documentId \in DocIds, accessGrantId \in GrantIdInputs,
       ownerId \in OwnerIds, reason \in Ms :
        LET r == denyAccessRequest(grants, docs, now, documentId,
                                   accessGrantId, ownerId, reason) IN
        IF Threw(r) THEN UNCHANGED vars
        ELSE /\ grants' = r.grants
             /\ last' = Call("denyAccessRequest", r)
             /\ UNCHANGED <<now, docs, uuidCount, hist>>

RevokeAccessGrant(Ms) ==
    \E documentId \in DocIds, accessGrantId \in GrantIdInputs,
       ownerId \in OwnerIds, message \in Ms :
        LET r == revokeAccessGrant(grants, docs, now, documentId,
                                   accessGrantId, ownerId, message) IN
        IF Threw(r) THEN UNCHANGED vars
        ELSE /\ grants' = r.grants
             /\ last' = Call("revokeAccessGrant", r)
             /\ UNCHANGED <<now, docs, uuidCount, hist>>

BulkRevokeAccess(Ms) ==
    \E documentId \in DocIds, ownerId \in OwnerIds, message \in Ms :
        LET r == bulkRevokeAccess(grants, docs, now, documentId, ownerId, message)
        IN
        IF Threw(r) THEN UNCHANGED vars
        ELSE /\ grants' = r.grants
             /\ last' = Call("bulkRevokeAccess", r)
             /\ UNCHANGED <<now, docs, uuidCount, hist>>

InitiateVerification ==
    \E requestUUID \in UuidInputs, requestorEmail \in Emails :
        LET r == initiateVerification(grants, docs, now, requestUUID,
                                      requestorEmail) IN
        IF Threw(r) THEN UNCHANGED vars
        ELSE /\ grants' = r.grants
             /\ last' = Call("initiateVerification", r)
             /\ UNCHANGED <<now, docs, uuidCount, hist>>

RequestOtp ==
    \E requestUUID \in UuidInputs, requestorEmail \in Emails, otp \in OtpCodes :
        LET r == requestOtp(grants, docs, now, requestUUID, requestorEmail, otp)
        IN
        IF Threw(r) THEN UNCHANGED vars
        ELSE /\ grants' = r.grants
             /\ hist' = [hist EXCEPT ![r.gid].otpRequested = TRUE,
                                     ![r.gid].wrongAll = 0,
                                     ![r.gid].wrongValid = 0]
             /\ last' = Call("requestOtp", r)
             /\ UNCHANGED <<now, docs, uuidCount>>

\* the history of wrong codes after a verifyOtp call that found grant gid
Guessed(h, g, otp, t) ==
    IF g.otp = Some(otp) THEN [h EXCEPT !.wrongAll = 0 - 1, !.wrongValid = 0 - 1]
    ELSE IF h.wrongAll < 0 THEN h
    ELSE [h EXCEPT !.wrongAll = IF @ < 3 THEN @ + 1 ELSE @,
                   !.wrongValid = IF ~isOtpExpired(g, t) /\ @ < 3
                                  THEN @ + 1 ELSE @]

VerifyOtp ==
    \E requestUUID \in UuidInputs, requestorEmail \in Emails,
       otp \in SubmittedCodes :
        LET r == verifyOtp(grants, now, requestUUID, requestorEmail, otp,
                           uuidCount + 1)
            h == Guessed(hist[r.gid], grants[r.gid], otp, now)
        IN
        IF r.gid = 0 THEN UNCHANGED vars
        ELSE IF Threw(r)
        THEN /\ hist' = [hist EXCEPT ![r.gid] = h]
             /\ UNCHANGED <<now, docs, grants, uuidCount, last>>
        ELSE IF r.res # "OK"
        THEN /\ grants' = r.grants
             /\ hist' = [hist EXCEPT ![r.gid] = h]
             /\ last' = Call("verifyOtp", r)
             /\ UNCHANGED <<now, docs, uuidCount>>
        ELSE /\ uuidCount < MaxUuid
             /\ grants' = r.grants
             /\ uuidCount' = uuidCount + 1
             /\ hist' = [hist EXCEPT ![r.gid] =
                            [h EXCEPT !.otpVerified = TRUE,
                                      !.sessionAt = Some(now),
                                      !.refreshed = FALSE]]
             /\ last' = Call("verifyOtp", r)
             /\ UNCHANGED <<now, docs>>

SessionCall(op, r) ==
    IF Threw(r) THEN UNCHANGED vars
    ELSE /\ grants' = r.grants
         /\ hist' = [hist EXCEPT ![r.gid].sessionAt = Some(now),
                                 ![r.gid].refreshed = TRUE]
         /\ last' = Call(op, r)
         /\ UNCHANGED <<now, docs, uuidCount>>

ValidateDownloadSession ==
    \E token \in UuidInputs :
        SessionCall("validateDownloadSession",
                    validateDownloadSession(grants, docs, now, token))

GetDocumentForDownload ==
    \E token \in UuidInputs :
        SessionCall("getDocumentForDownload",
                    getDocumentForDownload(grants, docs, now, token))

RecordDownload ==
    \E token \in UuidInputs :
        SessionCall("recordDownload", recordDownload(grants, now, token))

----------------------------------------------------------------------------
(* Spec: one requestor's grant on one public document, from its submission *)
(* through approval, OTP verification and download sessions.               *)

FlowDoc == "d1"
FlowEmail == "alice@x.com"

Init ==
    /\ now = 0
    /\ docs = [d \in DocIds |->
                  IF d = FlowDoc THEN [NewDocument EXCEPT !.visibilityStatus = PUBLIC]
                  ELSE NewDocument]
    /\ grants = <<NewGrant(FlowDoc, FlowEmail, 1)>>
    /\ uuidCount = 1
    /\ hist = <<NewHist>>
    /\ last = [op |-> "submitAccessRequest", res |-> "OK", gid |-> 1]

Next ==
    \/ Tick
    \/ UpdateDocumentVisibility({FlowDoc})
    \/ ApproveAccessRequest({Null})
    \/ DenyAccessRequest({Null})
    \/ RevokeAccessGrant({Null})
    \/ BulkRevokeAccess({Null})
    \/ InitiateVerification
    \/ RequestOtp
    \/ VerifyOtp
    \/ ValidateDownloadSession
    \/ GetDocumentForDownload
    \/ RecordDownload

Spec == Init /\ [][Next]_vars

----------------------------------------------------------------------------
(* SpecOwner: requests of several requestors on a document and the owner's *)
(* decisions on them, from an empty store with the documents uploaded.     *)

InitOwner ==
    /\ now = 0
    /\ docs = [d \in DocIds |-> NewDocument]
    /\ grants = <<>>
    /\ uuidCount = 0
    /\ hist = <<>>
    /\ last = [op |-> "init", res |-> "OK", gid |-> 0]

NextOwner ==
    \/ Tick
    \/ UpdateDocumentVisibility({FlowDoc})
    \/ DeleteDocument({FlowDoc})
    \/ SubmitAccessRequest({FlowDoc}, Emails)
    \/ ApproveAccessRequest({Null})
    \/ DenyAccessRequest({Null})
    \/ RevokeAccessGrant({Null})
    \/ BulkRevokeAccess({Null})

SpecOwner == InitOwner /\ [][NextOwner]_vars

----------------------------------------------------------------------------
(* Properties *)

\* the inputs with which the owner and the requestor reach grant g
OwnerOf(g) == DocOwner[grants[g].documentId]
TokenOf(g) == grants[g].accessToken[1]
EmailOf(g) == grants[g].requestorEmail
SessionOps == {"validateDownloadSession", "getDocumentForDownload", "recordDownload"}

\* C1: validateDownloadSession and getDocumentForDownload succeed for a grant
\* only after a verifyOtp succeeded on it, that only after a requestOtp
\* succeeded on it, that only after an approveAccessRequest succeeded on it;
\* a grant on which verifyOtp never succeeded holds no download session token.
Thm_C1 ==
    \A g \in GrantIds :
        /\ \A token \in UuidInputs :
              LET v == validateDownloadSession(grants, docs, now, token)
                  d == getDocumentForDownload(grants, docs, now, token)
              IN /\ v.res = "OK" /\ v.gid = g => hist[g].otpVerified
                 /\ d.res = "OK" /\ d.gid = g => hist[g].otpVerified
        /\ last.op \in SessionOps /\ last.gid = g => hist[g].otpVerified
        /\ hist[g].otpVerified => hist[g].otpRequested
        /\ hist[g].otpRequested => hist[g].approved
        /\ grants[g].downloadSessionToken # Null => hist[g].otpVerified

Witness_C1 ==
    /\ last.op = "getDocumentForDownload"
    /\ last.res = "OK"
    /\ hist[last.gid].otpVerified
    /\ hist[last.gid].approved

\* C2 (as claimed): every change of a grant's status is PENDING to APPROVED,
\* PENDING to DENIED or APPROVED to REVOKED; nothing leaves DENIED or REVOKED.
Cex_C2 ==
    [][\A g \in GrantIds :
          grants'[g].status # grants[g].status =>
              <<grants[g].status, grants'[g].status>> \in
                  {<<PENDING, APPROVED>>, <<PENDING, DENIED>>,
                   <<APPROVED, REVOKED>>}]_vars

\* C3 (amended): after a requestOtp followed by three consecutive verifyOtp
\* calls with wrong codes, each made before the issued code expired, every
\* further verifyOtp on the grant fails with Conflict and changes nothing, the
\* correct unexpired code included; otpAttempts decreases only by a successful
\* requestOtp, which sets it to 0 and whose new code verifyOtp then accepts.
Locked_C3 ==
    \A g \in GrantIds :
        /\ hist[g].wrongValid = 3 =>
              \A otp \in SubmittedCodes \cup {grants[g].otp[1]} :
                  LET r == verifyOtp(grants, now, TokenOf(g), EmailOf(g), otp,
                                     uuidCount + 1)
                  IN r.res = "Conflict" /\ r.grants = grants
        /\ last.op = "requestOtp" /\ last.gid = g =>
              /\ grants[g].otpAttempts = 0
              /\ verifyOtp(grants, now, TokenOf(g), EmailOf(g),
                           grants[g].otp[1], uuidCount + 1).res = "OK"

Cex_C5 ==
    last.op = "verifyOtp" /\ last.res = "OK" =>
        isSessionActive(grants[last.gid], now)

\* a PENDING grant exists for the pair
PendingFor(documentId, requestorEmail) ==
    \E i \in GrantIds : /\ grants[i].documentId = documentId
                        /\ grants[i].requestorEmail = requestorEmail
                        /\ grants[i].status = PENDING

\* C6 (amended): for a document that is PUBLIC and not deleted,
\* submitAccessRequest fails with Conflict and creates no grant while a PENDING
\* grant for the (document, email) pair exists, and otherwise succeeds, adding
\* a PENDING grant with a fresh accessToken and leaving the earlier grants
\* unchanged; for any other document it fails with NotFound and creates none.
Thm_C6 ==
    /\ \A documentId \in DocIds, requestorEmail \in Emails :
          LET r == submitAccessRequest(grants, docs, uuidCount + 1,
                                       documentId, requestorEmail)
              n == Len(grants) + 1
          IN IF ~findPublicDocument(docs, documentId)
             THEN r.res = "NotFound" /\ r.grants = grants
             ELSE IF PendingFor(documentId, requestorEmail)
             THEN r.res = "Conflict" /\ r.grants = grants
             ELSE /\ r.res = "OK"
                  /\ Len(r.grants) = n
                  /\ SubSeq(r.grants, 1, Len(grants)) = grants
                  /\ r.grants[n].status = PENDING
                  /\ r.grants[n].documentId = documentId
                  /\ r.grants[n].requestorEmail = requestorEmail
                  /\ \A i \in GrantIds :
                        grants[i].accessToken # r.grants[n].accessToken
    /\ \A i, j \in GrantIds :
          grants[i].accessToken = grants[j].accessToken => i = j

Witness_C6 ==
    /\ last.op = "submitAccessRequest"
    /\ last.gid = 2
    /\ grants[2].status = PENDING
    /\ grants[1].documentId = grants[2].documentId
    /\ grants[1].requestorEmail = grants[2].requestorEmail
    /\ grants[1].status \in {APPROVED, DENIED, REVOKED}
    /\ submitAccessRequest(grants, docs, uuidCount + 1, grants[2].documentId,
                           grants[2].requestorEmail).res = "Conflict"

\* C6 (as claimed): submitAccessRequest fails with Conflict while a PENDING
\* grant for the pair exists, and succeeds once that grant has been approved,
\* denied or revoked.
Cex_C6 ==
    \A i \in GrantIds :
        LET r == submitAccessRequest(grants, docs, uuidCount + 1,
                                     grants[i].documentId,
                                     grants[i].requestorEmail)
        IN IF PendingFor(grants[i].documentId, grants[i].requestorEmail)
           THEN r.res = "Conflict"
           ELSE r.res = "OK"

\* C7: approveAccessRequest and denyAccessRequest on a grant whose status is
\* APPROVED, DENIED or REVOKED fail with BadRequest and change no field.
Thm_C7 ==
    \A g \in GrantIds :
        grants[g].status \in {APPROVED, DENIED, REVOKED} =>
            \A message \in Messages :
                /\ \A off \in ExpiryOffsets :
                      LET r == approveAccessRequest(grants, docs, now,
                                   grants[g].documentId, g, OwnerOf(g),
                                   now + off, message)
                      IN r.res = "BadRequest" /\ r.grants = grants
                /\ LET r == denyAccessRequest(grants, docs, now,
                                grants[g].documentId, g, OwnerOf(g), message)
                   IN r.res = "BadRequest" /\ r.grants = grants

Witness_C7 ==
    \E g \in GrantIds :
        /\ grants[g].status = DENIED
        /\ last.op = "denyAccessRequest"
        /\ approveAccessRequest(grants, docs, now, grants[g].documentId, g,
                                OwnerOf(g), now + 90, Null).res = "BadRequest"

\* C8: approveAccessRequest on a PENDING grant with an expiry date at or before
\* the current time fails with BadRequest and leaves the grant PENDING with a
\* null expiryDate; with a later expiry date it succeeds; every
\* approveAccessRequest on a grant approved before fails, so that a grant is
\* approved at most once.
Thm_C8 ==
    \A g \in GrantIds :
        /\ grants[g].status = PENDING =>
              /\ grants[g].expiryDate = Null
              /\ \A off \in ExpiryOffsets, message \in Messages :
                    LET r == approveAccessRequest(grants, docs, now,
                                 grants[g].documentId, g, OwnerOf(g),
                                 now + off, message)
                    IN IF off <= 0
                       THEN r.res = "BadRequest" /\ r.grants = grants
                       ELSE /\ r.res = "OK"
                            /\ r.grants[g].status = APPROVED
                            /\ r.grants[g].expiryDate = Some(now + off)
        /\ hist[g].approvals <= 1
        /\ hist[g].approved =>
              \A off \in ExpiryOffsets, message \in Messages :
                  approveAccessRequest(grants, docs, now, grants[g].documentId,
                                       g, OwnerOf(g), now + off, message).res
                      # "OK"
        /\ last.op = "approveAccessRequest" /\ last.gid = g =>
              /\ grants[g].status = APPROVED
              /\ grants[g].expiryDate # Null
              /\ grants[g].expiryDate[1] > now

Witness_C8 ==
    \E g \in GrantIds :
        /\ hist[g].approvals = 1
        /\ grants[g].status = APPROVED
        /\ now > 0
        /\ approveAccessRequest(grants, docs, now, grants[g].documentId, g,
                                OwnerOf(g), now + 90, Null).res = "BadRequest"

\* C9: revokeAccessGrant on an existing grant of a document of the caller
\* succeeds whatever the grant's status and leaves it REVOKED with
\* actionCompletedAt set to the call time; it fails only with NotFound, when
\* the document or the grant does not exist.
Thm_C9 ==
    /\ \A documentId \in DocIds, accessGrantId \in GrantIdInputs,
          ownerId \in OwnerIds, message \in Messages :
          LET r == revokeAccessGrant(grants, docs, now, documentId,
                                     accessGrantId, ownerId, message)
              exists == /\ DocOwner[documentId] = ownerId
                        /\ accessGrantId \in GrantIds
                        /\ grants[accessGrantId].documentId = documentId
          IN IF exists
             THEN /\ r.res = "OK"
                  /\ r.grants[accessGrantId].status = REVOKED
                  /\ r.grants[accessGrantId].actionCompletedAt = Some(now)
             ELSE r.res = "NotFound" /\ r.grants = grants
    /\ last.op = "revokeAccessGrant" =>
          /\ grants[last.gid].status = REVOKED
          /\ grants[last.gid].actionCompletedAt = Some(now)

Witness_C9 ==
    /\ last.op = "revokeAccessGrant"
    /\ grants[last.gid].status = REVOKED
    /\ ~hist[last.gid].approved
    /\ now > 0

\* C10: a grant's expiryDate is non-null exactly when the grant has been
\* APPROVED at some point, and once set it is never cleared or changed.
Thm_C10 ==
    /\ [](\A g \in GrantIds :
             grants[g].expiryDate # Null <=> hist[g].approved)
    /\ [][\A g \in GrantIds :
             grants[g].expiryDate # Null =>
                 grants'[g].expiryDate = grants[g].expiryDate]_vars

Witness_C10 ==
    \E g \in GrantIds :
        /\ hist[g].approved
        /\ grants[g].status = REVOKED
        /\ grants[g].expiryDate # Null
        /\ grants[g].expiryDate[1] < now

\* the grant is APPROVED and its expiry date has not passed
ApprovedUnexpired(g) ==
    /\ grants[g].status = APPROVED
    /\ grants[g].expiryDate # Null
    /\ grants[g].expiryDate[1] >= now

\* C11: bulkRevokeAccess(documentId) by the document's owner sets to REVOKED
\* exactly the grants of that document that are APPROVED and not expired at call
\* time, and leaves every other grant unchanged: the expired APPROVED grants of
\* the document, its PENDING, DENIED and REVOKED grants, and the grants of
\* other documents.
Thm_C11 ==
    \A documentId \in DocIds, message \in Messages :
        LET r == bulkRevokeAccess(grants, docs, now, documentId,
                                  DocOwner[documentId], message)
        IN /\ r.res = "OK"
           /\ Len(r.grants) = Len(grants)
           /\ \A g \in GrantIds :
                 IF grants[g].documentId = documentId /\ ApprovedUnexpired(g)
                 THEN /\ r.grants[g].status = REVOKED
                      /\ r.grants[g].actionCompletedAt = Some(now)
                      /\ r.grants[g].expiryDate = grants[g].expiryDate
                 ELSE r.grants[g] = grants[g]

Witness_C11 ==
    /\ last.op = "bulkRevokeAccess"
    /\ Len(grants) = 2
    /\ grants[1].documentId = grants[2].documentId
    /\ grants[1].status = APPROVED
    /\ grants[1].expiryDate[1] < now
    /\ grants[2].status = REVOKED
    /\ grants[2].actionCompletedAt = Some(now)

\* C12: requestOtp on a grant that is PENDING, DENIED, REVOKED, or APPROVED
\* with its expiry date in the past fails with BadRequest and changes no field
\* of the grant; an OTP is issued only for a grant that is APPROVED and
\* unexpired at the time of the request.
Thm_C12 ==
    \A g \in GrantIds :
        /\ ~ApprovedUnexpired(g) =>
              \A otp \in OtpCodes :
                  LET r == requestOtp(grants, docs, now, TokenOf(g), EmailOf(g),
                                      otp)
                  IN r.res = "BadRequest" /\ r.grants = grants
        /\ last.op = "requestOtp" /\ last.gid = g => ApprovedUnexpired(g)
        /\ grants[g].otp # Null => hist[g].otpRequested

Witness_C12 ==
    \E g \in GrantIds :
        /\ grants[g].status = APPROVED
        /\ grants[g].expiryDate[1] < now
        /\ grants[g].otp \in {Some(c) : c \in OtpCodes}
        /\ docs[grants[g].documentId].visibilityStatus = PUBLIC
        /\ requestOtp(grants, docs, now, TokenOf(g), EmailOf(g),
                      "999999").res = "BadRequest"

\* verifyOtp on grant g with code otp, as the requestor calls it
VerifyOn(G, g, otp) ==
    verifyOtp(G, now, TokenOf(g), EmailOf(g), otp, uuidCount + 1)

\* a code is stored, it has not expired and fewer than 3 attempts were counted
CodeUsable(g) ==
    /\ grants[g].otp \in {Some(c) : c \in OtpCodes}
    /\ grants[g].otpExpiryDate # Null
    /\ grants[g].otpExpiryDate[1] >= now
    /\ grants[g].otpAttempts < 3

\* C13: every successful requestOtp leaves the grant with otpAttempts = 0, the
\* newly generated otp and otpExpiryDate = call time + 15 minutes, whatever the
\* previous values; from then on verifyOtp accepts the newly issued code only.
Thm_C13 ==
    \A g \in GrantIds :
        /\ ApprovedUnexpired(g)
           /\ docs[grants[g].documentId].visibilityStatus = PUBLIC =>
              \A otp \in OtpCodes :
                  LET r == requestOtp(grants, docs, now, TokenOf(g), EmailOf(g),
                                      otp)
                  IN /\ r.res = "OK"
                     /\ r.grants[g].otpAttempts = 0
                     /\ r.grants[g].otp = Some(otp)
                     /\ r.grants[g].otpExpiryDate = Some(now + 15)
                     /\ \A c \in SubmittedCodes :
                           VerifyOn(r.grants, g, c).res = "OK" <=> c = otp
        /\ last.op = "requestOtp" /\ last.gid = g =>
              /\ grants[g].otpAttempts = 0
              /\ grants[g].otp \in {Some(c) : c \in OtpCodes}
              /\ grants[g].otpExpiryDate = Some(now + 15)
        /\ \A c \in SubmittedCodes :
              VerifyOn(grants, g, c).res = "OK" => grants[g].otp = Some(c)

Witness_C13 ==
    \E g \in GrantIds :
        /\ grants[g].otpAttempts = 3
        /\ grants[g].otp = Some("100000")
        /\ grants[g].otpExpiryDate[1] < now
        /\ requestOtp(grants, docs, now, TokenOf(g), EmailOf(g),
                      "999999").res = "OK"

\* C14: when canVerifyOtp() holds and the submitted code differs from the
\* stored otp, verifyOtp fails with BadRequest, increases otpAttempts by exactly
\* 1 and leaves every other field of the grant unchanged.
Thm_C14 ==
    \A g \in GrantIds :
        CodeUsable(g) =>
            \A c \in SubmittedCodes :
                grants[g].otp # Some(c) =>
                    /\ VerifyOn(grants, g, c).res = "BadRequest"
                    /\ VerifyOn(grants, g, c).grants =
                           [grants EXCEPT ![g].otpAttempts = @ + 1]

Witness_C14 ==
    /\ last.op = "verifyOtp"
    /\ last.res = "BadRequest"
    /\ grants[last.gid].otpAttempts = 1
    /\ grants[last.gid].isVerified
    /\ grants[last.gid].downloadSessionToken # Null

\* C15 (amended): in the sequence requestOtp followed by three verifyOtp calls
\* with wrong codes on an approved, unexpired grant whose code has not expired,
\* the third verifyOtp call returns BadRequest and leaves otpAttempts = 3; the
\* fourth returns Conflict.
Thm_C15 ==
    \A g \in GrantIds :
        /\ hist[g].wrongValid = 2 /\ ApprovedUnexpired(g) /\ CodeUsable(g) =>
              \A c \in SubmittedCodes :
                  grants[g].otp # Some(c) =>
                      LET r == VerifyOn(grants, g, c)
                      IN /\ r.res = "BadRequest"
                         /\ r.grants[g].otpAttempts = 3
                         /\ \A c2 \in SubmittedCodes :
                               VerifyOn(r.grants, g, c2).res = "Conflict"
        /\ hist[g].wrongValid = 3 /\ last.op = "verifyOtp" /\ last.gid = g =>
              /\ last.res = "BadRequest"
              /\ grants[g].otpAttempts = 3

Witness_C15 ==
    \E g \in GrantIds :
        /\ hist[g].wrongValid = 3
        /\ ApprovedUnexpired(g)
        /\ last.op = "verifyOtp"
        /\ last.gid = g
        /\ last.res = "BadRequest"
        /\ VerifyOn(grants, g, "000000").res = "Conflict"

\* C15 (as claimed): the third verifyOtp call with a wrong code returns
\* Conflict.
Cex_C15 ==
    \A g \in GrantIds :
        /\ hist[g].wrongValid = 3
        /\ ApprovedUnexpired(g)
        /\ last.op = "verifyOtp"
        /\ last.gid = g
        => last.res = "Conflict"

\* C16: when canVerifyOtp() is false (no code issued, code cleared, code
\* expired, or 3 attempts counted), verifyOtp fails with Conflict if
\* otpAttempts >= 3 and with BadRequest otherwise, and changes no field of the
\* grant: otpAttempts is not incremented.
Thm_C16 ==
    \A g \in GrantIds :
        ~CodeUsable(g) =>
            \A c \in SubmittedCodes \cup {""} :
                /\ VerifyOn(grants, g, c).grants = grants
                /\ VerifyOn(grants, g, c).res =
                       IF grants[g].otpAttempts >= 3 THEN "Conflict"
                       ELSE "BadRequest"

Witness_C16 ==
    \E g \in GrantIds :
        /\ grants[g].otpAttempts = 2
        /\ grants[g].otp = Some("100000")
        /\ grants[g].otpExpiryDate[1] < now
        /\ VerifyOn(grants, g, "100000").res = "BadRequest"

\* C17: verifyOtp does not check the grant's expiry: on an APPROVED grant whose
\* expiryDate has passed, verifyOtp with the correct, unexpired code and
\* otpAttempts < 3 succeeds, sets isVerified and returns a download session
\* token.
Thm_C17 ==
    \A g \in GrantIds :
        /\ grants[g].status = APPROVED /\ grants[g].expiryDate[1] < now
           /\ CodeUsable(g) =>
              LET r == VerifyOn(grants, g, grants[g].otp[1])
              IN /\ r.res = "OK"
                 /\ r.grants[g].isVerified
                 /\ r.token = Some(uuidCount + 1)
                 /\ r.grants[g].downloadSessionToken = r.token
        /\ last.op = "verifyOtp" /\ last.res = "OK" /\ last.gid = g =>
              /\ grants[g].isVerified
              /\ grants[g].downloadSessionToken # Null

Witness_C17 ==
    /\ last.op = "verifyOtp"
    /\ last.res = "OK"
    /\ grants[last.gid].status = APPROVED
    /\ grants[last.gid].expiryDate[1] < now
    /\ grants[last.gid].verifiedAt = Some(now)

\* the grant holds a session that has neither timed out nor lost its grant
SessionLive(g) ==
    /\ grants[g].isVerified
    /\ ~(grants[g].status = APPROVED /\ grants[g].expiryDate[1] < now)
    /\ grants[g].lastActivityAt # Null =>
          now - grants[g].lastActivityAt[1] < 60

\* the grant that holds the download session token, 0 if none does
SessionOf(token) ==
    FindOne({g \in GrantIds : /\ grants[g].downloadSessionToken = Some(token)
                              /\ grants[g].isVerified})

\* C18: validateDownloadSession fails with NotFound when no grant holds the
\* token with isVerified = true and with Forbidden when the grant's session is
\* not active; every failing validateDownloadSession, getDocumentForDownload
\* and recordDownload leaves the grant unchanged, lastActivityAt included, so
\* that a session that has timed out is not revived by calling them again.
Thm_C18 ==
    \A token \in UuidInputs :
        LET v == validateDownloadSession(grants, docs, now, token)
            d == getDocumentForDownload(grants, docs, now, token)
            c == recordDownload(grants, now, token)
            g == SessionOf(token)
        IN /\ v.res # "OK" => v.grants = grants
           /\ d.res # "OK" => d.grants = grants
           /\ c.res # "OK" => c.grants = grants
           /\ g = 0 => v.res = "NotFound"
           /\ g # 0 =>
                 /\ v.res # "NotFound"
                 /\ ~SessionLive(g) =>
                       /\ v.res = "Forbidden"
                       /\ d.res = "Forbidden"
                       /\ c.res = "Forbidden"

Witness_C18 ==
    \E g \in GrantIds :
        /\ grants[g].isVerified
        /\ ApprovedUnexpired(g)
        /\ docs[grants[g].documentId].visibilityStatus = PUBLIC
        /\ now - grants[g].lastActivityAt[1] >= 60
        /\ validateDownloadSession(grants, docs, now,
               grants[g].downloadSessionToken[1]).res = "Forbidden"

\* C19: while a document's visibility is not PUBLIC, none of
\* initiateVerification, requestOtp, validateDownloadSession and
\* getDocumentForDownload succeeds for a grant of that document; each fails with
\* Forbidden when its earlier checks pass, and the failing call changes no
\* field of the grant.
Thm_C19 ==
    \A g \in GrantIds :
        docs[grants[g].documentId].visibilityStatus # PUBLIC =>
            /\ LET r == initiateVerification(grants, docs, now, TokenOf(g),
                                             EmailOf(g))
               IN /\ r.res # "OK"
                  /\ r.grants = grants
                  /\ ApprovedUnexpired(g) => r.res = "Forbidden"
            /\ \A otp \in OtpCodes :
                  LET r == requestOtp(grants, docs, now, TokenOf(g), EmailOf(g),
                                      otp)
                  IN /\ r.res # "OK"
                     /\ r.grants = grants
                     /\ ApprovedUnexpired(g) => r.res = "Forbidden"
            /\ \A token \in UuidInputs :
                  SessionOf(token) = g =>
                      LET v == validateDownloadSession(grants, docs, now, token)
                          d == getDocumentForDownload(grants, docs, now, token)
                      IN /\ v.res # "OK" /\ v.grants = grants
                         /\ d.res # "OK" /\ d.grants = grants
                         /\ SessionLive(g) =>
                               v.res = "Forbidden" /\ d.res = "Forbidden"

Witness_C19 ==
    \E g \in GrantIds :
        /\ docs[grants[g].documentId].visibilityStatus = HIDDEN
        /\ SessionLive(g)
        /\ ApprovedUnexpired(g)
        /\ getDocumentForDownload(grants, docs, now,
               grants[g].downloadSessionToken[1]).res = "Forbidden"
        /\ requestOtp(grants, docs, now, TokenOf(g), EmailOf(g),
                      "100000").res = "Forbidden"

UnknownTokens ==
    {u \in UuidInputs : \A g \in GrantIds : grants[g].accessToken # Some(u)}

\* C21: for initiateVerification, requestOtp and verifyOtp, a call with an
\* existing accessToken and an email other than the grant's requestorEmail has
\* the outcome of a call with a token of no grant: NotFound, no grant changed
\* (otpAttempts not incremented), nothing else returned or logged.
Thm_C21 ==
    \A g \in GrantIds : \A email \in Emails \ {EmailOf(g)}, u \in UnknownTokens :
        /\ initiateVerification(grants, docs, now, TokenOf(g), email)
              = initiateVerification(grants, docs, now, u, email)
        /\ initiateVerification(grants, docs, now, TokenOf(g), email)
              = Result(grants, "NotFound", 0)
        /\ \A otp \in OtpCodes :
              /\ requestOtp(grants, docs, now, TokenOf(g), email, otp)
                    = requestOtp(grants, docs, now, u, email, otp)
              /\ requestOtp(grants, docs, now, TokenOf(g), email, otp)
                    = Result(grants, "NotFound", 0)
        /\ \A otp \in SubmittedCodes :
              /\ verifyOtp(grants, now, TokenOf(g), email, otp, uuidCount + 1)
                    = verifyOtp(grants, now, u, email, otp, uuidCount + 1)
              /\ verifyOtp(grants, now, TokenOf(g), email, otp, uuidCount + 1)
                    = Result(grants, "NotFound", 0)

Witness_C21 ==
    \E g \in GrantIds : \E email \in Emails \ {EmailOf(g)} :
        /\ CodeUsable(g)
        /\ ApprovedUnexpired(g)
        /\ grants[g].otpAttempts = 2
        /\ UnknownTokens # {}
        /\ verifyOtp(grants, now, TokenOf(g), email, "000000",
                     uuidCount + 1).res = "NotFound"
        /\ VerifyOn(grants, g, "000000").res = "BadRequest"

----------------------------------------------------------------------------
(* VerificationDownloadService.createAuditLog *)

\* createAuditLog without its catch block
createAuditLog_rethrows(entries, storeOk) ==
    [written |-> IF storeOk THEN entries ELSE <<>>,
     threw |-> ~storeOk /\ entries # <<>>]

\* storeOk: auditLogRepository.save accepts the rows; a failed save is caught
\* and logged, never thrown to the caller
createAuditLog(entries, storeOk) ==
    [written |-> IF storeOk THEN entries ELSE <<>>,
     threw |-> FALSE]

\* what the call with outcome r returns and leaves behind with an audit store
\* that accepts or rejects the rows
WithAuditStore(r, storeOk) ==
    LET a == createAuditLog(r.audit, storeOk) IN
    [grants |-> r.grants,
     res |-> IF a.threw THEN "InternalServerError" ELSE r.res,
     token |-> IF a.threw THEN Null ELSE r.token,
     written |-> a.written]

\* the outcomes of all calls of the verification service in the current state
VerificationCalls ==
    UNION {
      {initiateVerification(grants, docs, now, u, e) :
          u \in UuidInputs, e \in Emails},
      {requestOtp(grants, docs, now, u, e, c) :
          u \in UuidInputs, e \in Emails, c \in OtpCodes},
      {verifyOtp(grants, now, u, e, c, uuidCount + 1) :
          u \in UuidInputs, e \in Emails, c \in SubmittedCodes},
      {validateDownloadSession(grants, docs, now, u) : u \in UuidInputs},
      {getDocumentForDownload(grants, docs, now, u) : u \in UuidInputs},
      {recordDownload(grants, now, u) : u \in UuidInputs} }

----------------------------------------------------------------------------
(* SpecEntity: the methods of the AccessGrant entity applied to a grant with *)
(* any combination of status, expiry date, verification flag and last        *)
(* activity, at any time.                                                    *)

EntityDates == {Null} \cup {Some(t) : t \in TimePoints}

\* a boolean as the caller reads it
Bool(b) == IF b THEN "true" ELSE "false"

InitEntity ==
    /\ now \in TimePoints
    /\ docs = [d \in DocIds |-> NewDocument]
    /\ \E status \in AccessStatus, expiryDate \in EntityDates,
          isVerified \in BOOLEAN, lastActivityAt \in EntityDates :
          grants = << [NewGrant(FlowDoc, FlowEmail, 1) EXCEPT
                          !.status = status,
                          !.expiryDate = expiryDate,
                          !.isVerified = isVerified,
                          !.lastActivityAt = lastActivityAt] >>
    /\ uuidCount = 1
    /\ hist = <<NewHist>>
    /\ last = [op |-> "init", res |-> "OK", gid |-> 0]

IsActive ==
    /\ last' = [op |-> "isActive", res |-> Bool(isActive(grants[1], now)),
                gid |-> 1]
    /\ UNCHANGED <<now, docs, grants, uuidCount, hist>>

IsExpired ==
    /\ last' = [op |-> "isExpired", res |-> Bool(isExpired(grants[1], now)),
                gid |-> 1]
    /\ UNCHANGED <<now, docs, grants, uuidCount, hist>>

IsSessionActive ==
    /\ last' = [op |-> "isSessionActive",
                res |-> Bool(isSessionActive(grants[1], now)), gid |-> 1]
    /\ UNCHANGED <<now, docs, grants, uuidCount, hist>>

NextEntity ==
    \/ Tick
    \/ IsActive
    \/ IsExpired
    \/ IsSessionActive

SpecEntity == InitEntity /\ [][NextEntity]_vars

\* C23: isActive() is true exactly when status is APPROVED and expiryDate is
\* null or not earlier than the current time; it is false for every PENDING,
\* DENIED or REVOKED grant whatever its expiryDate.
Thm_C23 ==
    \A g \in GrantIds :
        LET expected == /\ grants[g].status = APPROVED
                        /\ \/ grants[g].expiryDate = Null
                           \/ grants[g].expiryDate[1] >= now
        IN /\ isActive(grants[g], now) <=> expected
           /\ grants[g].status \in {PENDING, DENIED, REVOKED} =>
                 ~isActive(grants[g], now)
           /\ last.op = "isActive" => last.res = Bool(expected)

Witness_C23 ==
    /\ last.op = "isActive"
    /\ last.res = "true"
    /\ grants[1].status = APPROVED
    /\ grants[1].expiryDate = Some(now)

\* C24: isExpired() is true exactly when status is APPROVED and expiryDate is
\* strictly earlier than the current time; a grant whose expiryDate equals the
\* current time is not expired; PENDING, DENIED and REVOKED grants are never
\* expired; isActive() and isExpired() are never both true, and for an
\* APPROVED grant exactly one of them is true.
Thm_C24 ==
    \A g \in GrantIds :
        LET expected == /\ grants[g].status = APPROVED
                        /\ grants[g].expiryDate # Null
                        /\ grants[g].expiryDate[1] < now
        IN /\ isExpired(grants[g], now) <=> expected
           /\ grants[g].expiryDate = Some(now) => ~isExpired(grants[g], now)
           /\ grants[g].status # APPROVED => ~isExpired(grants[g], now)
           /\ ~(isActive(grants[g], now) /\ isExpired(grants[g], now))
           /\ grants[g].status = APPROVED =>
                 (isActive(grants[g], now) <=> ~isExpired(grants[g], now))
           /\ last.op = "isExpired" => last.res = Bool(expected)

Witness_C24 ==
    /\ last.op = "isExpired"
    /\ last.res = "false"
    /\ grants[1].status = APPROVED
    /\ grants[1].expiryDate = Some(now)
    /\ now > 0

SessionFields(g) ==
    <<g.isVerified, g.verifiedAt, g.downloadSessionToken, g.lastActivityAt>>

\* C26: when requestOtp succeeds on a grant with isVerified = true whose
\* session is no longer active, the grant afterwards has isVerified = false and
\* verifiedAt, downloadSessionToken and lastActivityAt cleared, the old session
\* token is rejected by every session operation, and the SESSION_EXPIRED audit
\* entry is written before the OTP_REQUESTED entry; when the session is still
\* active, requestOtp leaves the four session fields unchanged.
Thm_C26 ==
    \A g \in GrantIds :
        /\ /\ grants[g].isVerified
           /\ ApprovedUnexpired(g)
           /\ docs[grants[g].documentId].visibilityStatus = PUBLIC
           => \A otp \in OtpCodes :
                 LET r == requestOtp(grants, docs, now, TokenOf(g), EmailOf(g),
                                     otp)
                     old == grants[g].downloadSessionToken[1]
                 IN /\ r.res = "OK"
                    /\ IF SessionLive(g)
                       THEN /\ SessionFields(r.grants[g]) =
                                   SessionFields(grants[g])
                            /\ r.audit = <<"OTP_REQUESTED">>
                       ELSE /\ SessionFields(r.grants[g]) =
                                   <<FALSE, Null, Null, Null>>
                            /\ r.audit = <<"SESSION_EXPIRED", "OTP_REQUESTED">>
                            /\ validateDownloadSession(r.grants, docs, now,
                                                       old).res = "NotFound"
                            /\ getDocumentForDownload(r.grants, docs, now,
                                                      old).res = "NotFound"
                            /\ recordDownload(r.grants, now, old).res
                                   = "NotFound"
        /\ grants[g].downloadSessionToken # Null =>
              /\ grants[g].isVerified
              /\ grants[g].downloadSessionToken[1] <= uuidCount
        /\ ~grants[g].isVerified =>
              SessionFields(grants[g]) = <<FALSE, Null, Null, Null>>

Witness_C26 ==
    \E g \in GrantIds :
        /\ last.op = "requestOtp"
        /\ last.gid = g
        /\ hist[g].otpVerified
        /\ SessionFields(grants[g]) = <<FALSE, Null, Null, Null>>
        /\ \A u \in UuidInputs :
              validateDownloadSession(grants, docs, now, u).res = "NotFound"

\* C27: initiateVerification never changes a field of a grant, whether it
\* succeeds or fails, and returns no token; it succeeds only for a grant that
\* is APPROVED, not expired and whose document is PUBLIC, checking in that
\* order: status (BadRequest), expiry (BadRequest), visibility (Forbidden).
Thm_C27 ==
    /\ \A u \in UuidInputs, e \in Emails :
          LET r == initiateVerification(grants, docs, now, u, e)
          IN r.grants = grants /\ r.token = Null
    /\ \A g \in GrantIds :
          initiateVerification(grants, docs, now, TokenOf(g), EmailOf(g)).res =
              IF grants[g].status # APPROVED THEN "BadRequest"
              ELSE IF grants[g].expiryDate[1] < now THEN "BadRequest"
              ELSE IF docs[grants[g].documentId].visibilityStatus # PUBLIC
                   THEN "Forbidden"
              ELSE "OK"
    /\ last.op = "initiateVerification" =>
          /\ ApprovedUnexpired(last.gid)
          /\ docs[grants[last.gid].documentId].visibilityStatus = PUBLIC

Witness_C27 ==
    /\ last.op = "initiateVerification"
    /\ last.res = "OK"
    /\ grants[last.gid].otp = Null
    /\ grants[last.gid].downloadSessionToken = Null
    /\ now > 0

\* C28: 0 <= otpAttempts <= 3 holds for every grant in every reachable state.
Thm_C28 ==
    \A g \in GrantIds :
        /\ grants[g].otpAttempts >= 0
        /\ grants[g].otpAttempts <= 3
        /\ \A c \in SubmittedCodes :
              VerifyOn(grants, g, c).grants[g].otpAttempts <= 3

Witness_C28 ==
    \E g \in GrantIds :
        /\ grants[g].otpAttempts = 3
        /\ hist[g].otpVerified
        /\ VerifyOn(grants, g, "000000").res = "Conflict"

\* C29: an issued OTP is single-use: a successful verifyOtp sets otp to empty;
\* until a new requestOtp every verifyOtp, with the same code or another,
\* fails with BadRequest and issues no session token.
Used_C29 ==
    \A g \in GrantIds :
        /\ last.op = "verifyOtp" /\ last.res = "OK" /\ last.gid = g =>
              grants[g].otp = Some("")
        /\ grants[g].otp = Some("") =>
              /\ hist[g].otpVerified
              /\ \A c \in SubmittedCodes :
                    /\ VerifyOn(grants, g, c).res = "BadRequest"
                    /\ VerifyOn(grants, g, c).token = Null
                    /\ VerifyOn(grants, g, c).grants = grants

Thm_C29 ==
    /\ []Used_C29
    /\ [][\A g \in GrantIds :
             grants[g].otp = Some("") /\ grants'[g].otp # Some("") =>
                 last'.op = "requestOtp" /\ last'.gid = g]_vars

Witness_C29 ==
    \E g \in GrantIds :
        /\ grants[g].otp = Some("")
        /\ grants[g].otpExpiryDate[1] >= now
        /\ grants[g].otpAttempts < 3
        /\ last.op = "verifyOtp"
        /\ last.res = "OK"
        /\ VerifyOn(grants, g, "100000").res = "BadRequest"
        /\ VerifyOn(grants, g, "999999").res = "BadRequest"

----------------------------------------------------------------------------
(* SpecDownload: VerificationDownloadController.downloadDocument, a request *)
(* that awaits getDocumentForDownload, sends the file bytes and then awaits  *)
(* recordDownload, with time passing and other requests of the same grant    *)
(* running between its steps.                                                *)

\* the position of the grant's download request:
\*   dl       "idle", "fetched" (getDocumentForDownload returned), "sent"
\*            (res.send(fileBuffer) done, recordDownload not yet called)
\*   dlToken  the sessionToken parameter of the request
\*   dlLost   a request sent the file bytes and ended without its
\*            DOWNLOAD_COMPLETED audit entry
NewDownload == [dl |-> "idle", dlToken |-> Null, dlLost |-> FALSE]

InitDownload ==
    /\ now = 0
    /\ docs = [d \in DocIds |->
                  IF d = FlowDoc THEN [NewDocument EXCEPT !.visibilityStatus = PUBLIC]
                  ELSE NewDocument]
    /\ grants = <<NewGrant(FlowDoc, FlowEmail, 1)>>
    /\ uuidCount = 1
    /\ hist = <<NewHist @@ NewDownload>>
    /\ last = [op |-> "submitAccessRequest", res |-> "OK", gid |-> 1]

\* const { document } = await getDocumentForDownload(sessionToken)
DownloadFetch ==
    \E sessionToken \in UuidInputs :
        LET r == getDocumentForDownload(grants, docs, now, sessionToken) IN
        /\ r.res = "OK"
        /\ hist[r.gid].dl = "idle"
        /\ grants' = r.grants
        /\ hist' = [hist EXCEPT ![r.gid].sessionAt = Some(now),
                                ![r.gid].refreshed = TRUE,
                                ![r.gid].dl = "fetched",
                                ![r.gid].dlToken = Some(sessionToken)]
        /\ last' = Call("getDocumentForDownload", r)
        /\ UNCHANGED <<now, docs, uuidCount>>

\* fileStorageService.readFile, then res.send(fileBuffer); a file missing from
\* the storage ends the request with 404
DownloadSend ==
    \E g \in GrantIds :
        /\ hist[g].dl = "fetched"
        /\ hist' = [hist EXCEPT ![g].dl =
                        IF docs[grants[g].documentId].stored THEN "sent"
                        ELSE "idle"]
        /\ last' = [op |-> "send", res |-> "OK", gid |-> g]
        /\ UNCHANGED <<now, docs, grants, uuidCount>>

\* await recordDownload(sessionToken, ...): on success the grant is saved and
\* DOWNLOAD_COMPLETED written; an exception ends the request
DownloadRecord ==
    \E g \in GrantIds :
        /\ hist[g].dl = "sent"
        /\ LET r == recordDownload(grants, now, hist[g].dlToken[1]) IN
           IF r.res = "OK" /\ r.audit = <<"DOWNLOAD_COMPLETED">>
           THEN /\ grants' = r.grants
                /\ hist' = [hist EXCEPT ![g].sessionAt = Some(now),
                                        ![g].refreshed = TRUE,
                                        ![g].dl = "idle",
                                        ![g].dlToken = Null]
                /\ last' = Call("recordDownload", r)
           ELSE /\ grants' = grants
                /\ hist' = [hist EXCEPT ![g].dl = "idle",
                                        ![g].dlToken = Null,
                                        ![g].dlLost = TRUE]
                /\ last' = [op |-> "recordDownload", res |-> r.res, gid |-> g]
        /\ UNCHANGED <<now, docs, uuidCount>>

NextDownload ==
    \/ Tick
    \/ ApproveAccessRequest({Null})
    \/ RevokeAccessGrant({Null})
    \/ RequestOtp
    \/ VerifyOtp
    \/ DownloadFetch
    \/ DownloadSend
    \/ DownloadRecord

SpecDownload == InitDownload /\ [][NextDownload]_vars

\* C30 (as claimed): the file bytes are sent only after getDocumentForDownload
\* has succeeded for the session token, and every request that sends the file
\* bytes then writes a DOWNLOAD_COMPLETED audit entry for the grant, also when
\* time passes or other requests of the grant run before recordDownload.
Cex_C30 ==
    \A g \in GrantIds :
        /\ hist[g].dl = "sent" =>
              /\ hist[g].otpVerified
              /\ hist[g].dlToken # Null
        /\ ~hist[g].dlLost

----------------------------------------------------------------------------
(* SpecRace: requests that run concurrently.  Every service method reads the *)
(* grant with an awaited findOne, changes its own copy of the row and writes *)
(* that copy with an awaited accessGrantRepository.save; neither the service *)
(* nor the entity uses a transaction, a lock or a version column, so other   *)
(* requests run between the read and the save.  SpecRace follows the         *)
(* requests of one grant within one clock reading; SpecSubmitRace follows    *)
(* submissions and the owner's decisions on them.                            *)

Requests == {"r1", "r2"}

RequestorOps == {"requestOtp", "verifyOtp", "getDocumentForDownload"}

\* a request that is not running
NoCall == [op |-> "none", res |-> "OK", gid |-> 0, row |-> Null]

\* a request that has read the rows and holds the copy it is about to save
Holding(op, r) ==
    [op |-> op, res |-> r.res, gid |-> r.gid, row |-> Some(r.grants[r.gid])]

\* in SpecRace hist is
\*   call      what each request holds between its read and its save
\*   compared  per grant, the wrong codes verifyOtp has compared with the otp
\*             since the last save of requestOtp
\*   answered  per grant, the owner operations that have returned normally
NewRace ==
    [call |-> [p \in Requests |-> NoCall], compared |-> <<>>, answered |-> <<>>]

Inserting == {p \in Requests : hist.call[p].op = "submitAccessRequest"}

\* the PENDING grant of Init, no request running
InitRace ==
    /\ now = 0
    /\ docs = [d \in DocIds |->
                  IF d = FlowDoc THEN [NewDocument EXCEPT !.visibilityStatus = PUBLIC]
                  ELSE NewDocument]
    /\ grants = <<NewGrant(FlowDoc, FlowEmail, 1)>>
    /\ uuidCount = 1
    /\ hist = [NewRace EXCEPT !.compared = <<0>>, !.answered = <<{}>>]
    /\ last = [op |-> "submitAccessRequest", res |-> "OK", gid |-> 1]

\* the PUBLIC document without grants, no request running
InitSubmitRace ==
    /\ now = 0
    /\ docs = [d \in DocIds |->
                  IF d = FlowDoc THEN [NewDocument EXCEPT !.visibilityStatus = PUBLIC]
                  ELSE NewDocument]
    /\ grants = <<>>
    /\ uuidCount = 0
    /\ hist = NewRace
    /\ last = [op |-> "init", res |-> "OK", gid |-> 0]

\* submitAccessRequest up to accessGrantRepository.create (lines 132-170)
SubmitRead ==
    \E p \in Requests :
        LET r == submitAccessRequest(grants, docs, uuidCount + 1,
                                     FlowDoc, FlowEmail) IN
        /\ hist.call[p] = NoCall
        /\ r.res = "OK"
        /\ Len(grants) + Cardinality(Inserting) < MaxGrants
        /\ uuidCount < MaxUuid
        /\ uuidCount' = uuidCount + 1
        /\ hist' = [hist EXCEPT !.call[p] = Holding("submitAccessRequest", r)]
        /\ UNCHANGED <<now, docs, grants, last>>

\* await accessGrantRepository.save(accessGrant) of a new row (line 172)
SubmitSave ==
    \E p \in Inserting :
        /\ grants' = Append(grants, hist.call[p].row[1])
        /\ hist' = [hist EXCEPT !.call[p] = NoCall,
                                !.compared = Append(@, 0),
                                !.answered = Append(@, {})]
        /\ last' = [op |-> "submitAccessRequest", res |-> "OK",
                    gid |-> Len(grants) + 1]
        /\ UNCHANGED <<now, docs, uuidCount>>

\* approveAccessRequest up to its save (lines 498-531)
ApproveRead ==
    \E p \in Requests, accessGrantId \in GrantIdInputs, off \in {90} :
        LET r == approveAccessRequest(grants, docs, now, FlowDoc, accessGrantId,
                                      DocOwner[FlowDoc], now + off, Null) IN
        /\ hist.call[p] = NoCall
        /\ r.res = "OK"
        /\ hist' = [hist EXCEPT !.call[p] = Holding("approveAccessRequest", r)]
        /\ UNCHANGED <<now, docs, grants, uuidCount, last>>

\* denyAccessRequest up to its save (lines 550-575)
DenyRead ==
    \E p \in Requests, accessGrantId \in GrantIdInputs :
        LET r == denyAccessRequest(grants, docs, now, FlowDoc, accessGrantId,
                                   DocOwner[FlowDoc], Null) IN
        /\ hist.call[p] = NoCall
        /\ r.res = "OK"
        /\ hist' = [hist EXCEPT !.call[p] = Holding("denyAccessRequest", r)]
        /\ UNCHANGED <<now, docs, grants, uuidCount, last>>

\* revokeAccessGrant up to its save (lines 463-482)
RevokeRead ==
    \E p \in Requests, accessGrantId \in GrantIdInputs :
        LET r == revokeAccessGrant(grants, docs, now, FlowDoc, accessGrantId,
                                   DocOwner[FlowDoc], Null) IN
        /\ hist.call[p] = NoCall
        /\ r.res = "OK"
        /\ hist' = [hist EXCEPT !.call[p] = Holding("revokeAccessGrant", r)]
        /\ UNCHANGED <<now, docs, grants, uuidCount, last>>

\* requestOtp up to its save (lines 1046-1096)
RequestOtpRead ==
    \E p \in Requests, requestUUID \in UuidInputs :
        LET r == requestOtp(grants, docs, now, requestUUID, FlowEmail, "100000")
        IN
        /\ hist.call[p] = NoCall
        /\ r.res = "OK"
        /\ hist' = [hist EXCEPT !.call[p] = Holding("requestOtp", r)]
        /\ UNCHANGED <<now, docs, grants, uuidCount, last>>

\* verifyOtp up to its save (lines 1122-1149 and 1162-1170): a call that
\* passes canVerifyOtp compares the code and holds the row with the attempt
\* counted, or the row with the session
VerifyOtpRead ==
    \E p \in Requests, requestUUID \in UuidInputs, otp \in {"100000", "000000"} :
        LET r == verifyOtp(grants, now, requestUUID, FlowEmail, otp,
                           uuidCount + 1) IN
        /\ hist.call[p] = NoCall
        /\ r.gid # 0
        /\ r.grants # grants
        /\ hist.compared[r.gid] <= OTP_MAX_ATTEMPTS
        /\ r.res = "OK" => uuidCount < MaxUuid
        /\ uuidCount' = IF r.res = "OK" THEN uuidCount + 1 ELSE uuidCount
        /\ hist' = [hist EXCEPT !.call[p] = Holding("verifyOtp", r),
                                !.compared[r.gid] =
                                    IF r.res = "OK" THEN @ ELSE @ + 1]
        /\ UNCHANGED <<now, docs, grants, last>>

\* getDocumentForDownload up to the save of lastActivityAt (lines 1239-1278)
GetDocumentForDownloadRead ==
    \E p \in Requests, token \in UuidInputs :
        LET r == getDocumentForDownload(grants, docs, now, token) IN
        /\ hist.call[p] = NoCall
        /\ r.res = "OK"
        /\ hist' = [hist EXCEPT !.call[p] = Holding("getDocumentForDownload", r)]
        /\ UNCHANGED <<now, docs, grants, uuidCount, last>>

\* await accessGrantRepository.save(accessGrant) of a row that was read: the
\* stored row becomes the request's copy, and the request returns
Save ==
    \E p \in Requests \ Inserting :
        LET c == hist.call[p] IN
        /\ c # NoCall
        /\ grants' = [grants EXCEPT ![c.gid] = c.row[1]]
        /\ hist' = [hist EXCEPT
                      !.call[p] = NoCall,
                      !.compared[c.gid] = IF c.op = "requestOtp" THEN 0 ELSE @,
                      !.answered[c.gid] =
                          IF c.res = "OK" /\ c.op \notin RequestorOps
                          THEN @ \cup {c.op} ELSE @]
        /\ last' = [op |-> c.op, res |-> c.res, gid |-> c.gid]
        /\ UNCHANGED <<now, docs, uuidCount>>

NextRace ==
    \/ ApproveRead
    \/ RevokeRead
    \/ RequestOtpRead
    \/ VerifyOtpRead
    \/ GetDocumentForDownloadRead
    \/ Save

SpecRace == InitRace /\ [][NextRace]_vars

NextSubmitRace ==
    \/ Tick
    \/ SubmitRead
    \/ SubmitSave
    \/ ApproveRead
    \/ DenyRead
    \/ Save

SpecSubmitRace == InitSubmitRace /\ [][NextSubmitRace]_vars

\* no request is between its read and its save
Quiet == \A p \in Requests : hist.call[p] = NoCall

\* request p saves the row it holds for operation op
Saves(p, op) == hist.call[p].op = op /\ hist'.call[p] = NoCall

\* C31 (as claimed): also when verifyOtp requests of a grant interleave
\* between their read and their save, at most OTP_MAX_ATTEMPTS wrong codes are
\* compared with one issued OTP, and no wrong guess is lost: the save of every
\* verifyOtp that compared a wrong code raises the stored otpAttempts by one.
Cex_C31 ==
    /\ [](\A g \in GrantIds : hist.compared[g] <= OTP_MAX_ATTEMPTS)
    /\ [][\A p \in Requests :
            Saves(p, "verifyOtp") /\ hist.call[p].res = "BadRequest" =>
                grants'[hist.call[p].gid].otpAttempts =
                    grants[hist.call[p].gid].otpAttempts + 1]_vars

\* the PENDING grants of a requestor on a document
PendingGrants(documentId, requestorEmail) ==
    {g \in GrantIds : /\ grants[g].documentId = documentId
                      /\ grants[g].requestorEmail = requestorEmail
                      /\ grants[g].status = PENDING}

\* C32 (as claimed): in every reachable state, also when submitAccessRequest
\* calls for the same (documentId, requestorEmail) interleave between the
\* pending-request lookup and the save, each pair has at most one PENDING
\* grant.
Cex_C32 ==
    \A documentId \in DocIds, requestorEmail \in Emails :
        Cardinality(PendingGrants(documentId, requestorEmail)) <= 1

\* C33 (as claimed): when approveAccessRequest and denyAccessRequest for the
\* same PENDING grant interleave between their read and their save, at most
\* one of them returns normally, a grant reported approved is not stored as
\* DENIED nor the reverse, and a DENIED grant carries no expiryDate.
Cex_C33 ==
    \A g \in GrantIds :
        /\ ~({"approveAccessRequest", "denyAccessRequest"}
                \subseteq hist.answered[g])
        /\ grants[g].status = DENIED => grants[g].expiryDate = Null

\* C34 (as claimed): once the stored status of a grant is REVOKED, the save of
\* a requestor-side operation leaves it REVOKED, also when that operation read
\* the grant before the revocation was saved.
Cex_C34 ==
    [][\A p \in Requests :
         LET c == hist.call[p] IN
         /\ c.op \in RequestorOps
         /\ Saves(p, c.op)
         /\ grants[c.gid].status = REVOKED
         => grants'[c.gid].status = REVOKED]_vars

\* the outcomes of the three session operations called with a token
SessionCalls(token) ==
    { validateDownloadSession(grants, docs, now, token),
      getDocumentForDownload(grants, docs, now, token),
      recordDownload(grants, now, token) }

\* C35 (as claimed): for a grant whose status is REVOKED, DENIED or PENDING,
\* validateDownloadSession, getDocumentForDownload and recordDownload never
\* succeed, whatever token they are called with, also when the grant had an
\* active verified session when it was revoked.
Cex_C35 ==
    \A g \in GrantIds, token \in UuidInputs :
        grants[g].status # APPROVED =>
            \A r \in SessionCalls(token) : r.gid = g => r.res # "OK"

\* C36 (as claimed): verifyOtp issues a download session token only for a
\* grant whose status is APPROVED at the time of the call: for a grant that is
\* not APPROVED (revoked after its OTP was issued), verifyOtp with any code,
\* the correct unexpired one included, does not succeed, returns no token and
\* leaves isVerified and downloadSessionToken as they were.
Cex_C36 ==
    \A g \in GrantIds, otp \in SubmittedCodes :
        grants[g].status # APPROVED =>
            LET r == VerifyOn(grants, g, otp) IN
            /\ r.res # "OK"
            /\ r.token = Null
            /\ r.grants[g].isVerified = grants[g].isVerified
            /\ r.grants[g].downloadSessionToken = grants[g].downloadSessionToken

\* the grant is APPROVED and its expiryDate has passed
PastExpiry(g) ==
    /\ grants[g].status = APPROVED
    /\ grants[g].expiryDate # Null
    /\ grants[g].expiryDate[1] < now

\* C37: for an APPROVED grant whose expiryDate is in the past,
\* validateDownloadSession, getDocumentForDownload and recordDownload called
\* with any token do not succeed and change no row, whatever happened before:
\* the session may have been verified before the expiry or its token obtained
\* by verifyOtp after it.
Thm_C37 ==
    \A g \in GrantIds, token \in UuidInputs :
        PastExpiry(g) =>
            \A r \in SessionCalls(token) :
                r.gid \in {0, g} =>
                    /\ r.res \in {"NotFound", "Forbidden"}
                    /\ r.grants = grants

\* an expired APPROVED grant on a PUBLIC document holds a session token, its
\* last activity is less than 60 minutes old and was before the expiry
Witness_C37 ==
    \E g \in GrantIds :
        /\ PastExpiry(g)
        /\ grants[g].isVerified
        /\ grants[g].downloadSessionToken # Null
        /\ grants[g].lastActivityAt # Null
        /\ grants[g].lastActivityAt[1] <= grants[g].expiryDate[1]
        /\ now - grants[g].lastActivityAt[1] < SESSION_TIMEOUT_MINUTES
        /\ docs[grants[g].documentId].visibilityStatus = PUBLIC

\* the session fields of a grant are all set or all unset
SessionConsistent(g) ==
    /\ g.isVerified <=> g.downloadSessionToken # Null
    /\ g.isVerified <=> g.lastActivityAt # Null
    /\ g.isVerified <=> g.verifiedAt # Null

\* C38: in every state reached by operations run one at a time, isVerified is
\* true if and only if downloadSessionToken is set, if and only if
\* lastActivityAt is set, if and only if verifiedAt is set; so no verified
\* grant is without lastActivityAt when isSessionActive() is evaluated.
Thm_C38 ==
    \A g \in GrantIds : SessionConsistent(grants[g])

\* a session was verified, and requestOtp then found it stale and cleared it
Witness_C38 ==
    \E g \in GrantIds :
        /\ last = [op |-> "requestOtp", res |-> "OK", gid |-> g]
        /\ hist[g].otpVerified
        /\ ~grants[g].isVerified
        /\ grants[g].downloadSessionToken = Null

\* the tokens that are the downloadSessionToken of some grant
CurrentSessionTokens ==
    {token \in UuidInputs :
        \E g \in GrantIds : grants[g].downloadSessionToken = Some(token)}

\* C39: every successful verifyOtp stores a downloadSessionToken that was never
\* issued before, and validateDownloadSession, getDocumentForDownload and
\* recordDownload answer NotFound to every token that is not the current
\* downloadSessionToken of a grant, the tokens issued to the grant earlier
\* included.
Thm_C39 ==
    /\ [](\A token \in UuidInputs \ CurrentSessionTokens :
            \A r \in SessionCalls(token) : r.res = "NotFound" /\ r.gid = 0)
    /\ [][\A g \in GrantIds :
            /\ last'.op = "verifyOtp" /\ last'.res = "OK" /\ last'.gid = g
            /\ uuidCount' # uuidCount
            => /\ uuidCount' = uuidCount + 1
               /\ grants'[g].downloadSessionToken = Some(uuidCount')
               /\ grants'[g].downloadSessionToken # grants[g].downloadSessionToken
               /\ uuidCount' \notin CurrentSessionTokens]_vars

\* verifyOtp has just replaced an earlier session token of the grant
Witness_C39 ==
    \E g \in GrantIds, old \in 1..uuidCount :
        /\ last = [op |-> "verifyOtp", res |-> "OK", gid |-> g]
        /\ grants[g].downloadSessionToken # Null
        /\ old \notin {TokenOf(g), grants[g].downloadSessionToken[1]}

\* the times at or after t at which the grant has not expired
Unexpired(g, t) ==
    {u \in TimePoints \cup {now} : u >= t /\ ~isExpired(grants[g], u)}

\* the grant is APPROVED and unexpired and its document is PUBLIC
Recoverable(g) ==
    /\ grants[g].status = APPROVED
    /\ ~isExpired(grants[g], now)
    /\ docs[grants[g].documentId].visibilityStatus = PUBLIC

\* C40: from every reachable state in which a grant is APPROVED and unexpired
\* and its document is PUBLIC, whatever its otpAttempts, OTP expiry and
\* session fields, requestOtp now, verifyOtp with the issued code at a time
\* within the 15 minutes of the code, and getDocumentForDownload with the
\* returned token less than 60 minutes later, all before the grant expires,
\* succeed at every step.
Thm_C40 ==
    \A g \in GrantIds, otp \in OtpCodes :
        Recoverable(g) =>
            LET r1 == requestOtp(grants, docs, now, TokenOf(g), EmailOf(g), otp)
            IN
            /\ r1.res = "OK" /\ r1.gid = g
            /\ \A t2 \in Unexpired(g, now) :
                 t2 <= now + OTP_VALIDITY_MINUTES =>
                   LET r2 == verifyOtp(r1.grants, t2, TokenOf(g), EmailOf(g),
                                       otp, uuidCount + 1) IN
                   /\ r2.res = "OK" /\ r2.gid = g
                   /\ r2.token = Some(uuidCount + 1)
                   /\ \A t3 \in Unexpired(g, t2) :
                        t3 - t2 < SESSION_TIMEOUT_MINUTES =>
                          LET r3 == getDocumentForDownload(r2.grants, docs, t3,
                                                           uuidCount + 1) IN
                          r3.res = "OK" /\ r3.gid = g

\* a recoverable grant that is locked out of OTP entry, whose code has
\* expired and whose verified session has timed out, with a later time left
\* before its expiry
Witness_C40 ==
    \E g \in GrantIds :
        /\ Recoverable(g)
        /\ grants[g].otpAttempts >= OTP_MAX_ATTEMPTS
        /\ isOtpExpired(grants[g], now)
        /\ grants[g].isVerified
        /\ ~isSessionActive(grants[g], now)
        /\ grants[g].expiryDate # Null

====
